---- MODULE Spec2Model ----
(***************************************************************************)
(* Identity resolution of IKY (Hey-INY): IdentityService.identify, the     *)
(* FingerprintMatcher it calls and the PostgreSQL tables it reads and      *)
(* writes.  Every awaited database statement of identify is one step of a  *)
(* call, so that calls can be interleaved and a statement can fail.        *)
(*                                                                         *)
(* JavaScript values are triples <<tag, number, text>>:                    *)
(*   <<"undef",0,"">>  undefined      <<"null",0,"">>  null                *)
(*   <<"num",n,"">>    the number n   <<"str",0,s>>    the string s        *)
(*   <<"sha",0,s>>     the hex digest of the string s                      *)
(*   <<"dec",n,"">>    the string node-postgres returns for a DECIMAL(4,2) *)
(*                     column holding n/100 ("2.00" for n = 200)           *)
(*   <<"arr",0,list>>  the array of the elements of the sequence list      *)
(* A font list is the plain sequence of its names, or null or undefined.   *)
(* A plugin list is the sequence of the values of its names: a plugin      *)
(* object without a name gives an undefined element.                       *)
(* Pixel ratios are numbers of hundredths.  Scores are integers in units   *)
(* of 1/ScoreUnit, so that the weighted sum is computed exactly.           *)
(***************************************************************************)
EXTENDS Integers, Sequences, FiniteSets, TLC

Undef == <<"undef", 0, "">>

Null == <<"null", 0, "">>

Num(n) == <<"num", n, "">>

Str(s) == <<"str", 0, s>>

Dec(n) == <<"dec", n, "">>

\* An array argument that may also be null or undefined: the array of the
\* elements of list.
Arr(list) == <<"arr", 0, list>>

\* JavaScript truthiness of a value (!value is the negation).
Truthy(v) ==
    CASE v[1] = "undef" -> FALSE
      [] v[1] = "null"  -> FALSE
      [] v[1] = "num"   -> v[2] # 0
      [] v[1] = "str"   -> v[3] # ""
      [] OTHER          -> TRUE

\* Number(v) in hundredths, for the one subtraction of the matcher.
ToHundredths(v) == v[2]

\* What a column of the given SQL type returns for a value that was bound
\* as a statement parameter: undefined and null are stored as NULL and come
\* back as null; a DECIMAL comes back as a string; INTEGER and TEXT come
\* back as they went in.
ColumnRoundTrip(type, v) ==
    CASE v[1] \in {"undef", "null"} -> Null
      [] type = "decimal"           -> Dec(v[2])
      [] OTHER                      -> v

\* crypto sha256 hex digest of String(value), or null for a falsy value.
HashFingerprint(value) ==
    IF ~Truthy(value) THEN Null ELSE <<"sha", 0, value[3]>>

(***************************************************************************)
(* FingerprintMatcher                                                      *)
(***************************************************************************)
WeightCanvas == 30

WeightAudio == 25

WeightHardware == 20

WeightScreen == 15

WeightFonts == 10

Threshold == 75

\* One sub-score is in units of 1/60; a weight is in hundredths.
SubUnit == 3 * 4 * 5

\* A total score is in units of 1/ScoreUnit.
ScoreUnit == 100 * SubUnit

\* _compareExact as it would be without the test for missing values.
CompareExact_MissingIsEqual(value1, value2) ==
    IF value1 = value2 THEN SubUnit ELSE 0

CompareExact(value1, value2) ==
    IF ~Truthy(value1) \/ ~Truthy(value2) THEN 0
    ELSE IF value1 = value2 THEN SubUnit ELSE 0

Ind(b) == IF b THEN 1 ELSE 0

\* _compareHardware as it would be if a field counted whenever the first
\* device has it.
CompareHardware_FirstOnly(device1, device2) ==
    LET c1 == Truthy(device1.hardware_concurrency)
        c2 == Truthy(device1.device_memory)
        score == Ind(c1 /\ device1.hardware_concurrency = device2.hardware_concurrency)
                 + Ind(c2 /\ device1.device_memory = device2.device_memory)
        count == Ind(c1) + Ind(c2)
    IN  IF count > 0 THEN (score * SubUnit) \div count ELSE 0

CompareHardware(device1, device2) ==
    LET c1 == Truthy(device1.hardware_concurrency) /\ Truthy(device2.hardware_concurrency)
        c2 == Truthy(device1.device_memory) /\ Truthy(device2.device_memory)
        score == Ind(c1 /\ device1.hardware_concurrency = device2.hardware_concurrency)
                 + Ind(c2 /\ device1.device_memory = device2.device_memory)
        count == Ind(c1) + Ind(c2)
    IN  IF count > 0 THEN (score * SubUnit) \div count ELSE 0

Abs(n) == IF n < 0 THEN -n ELSE n

CompareScreen(device1, device2) ==
    LET c1 == Truthy(device1.screen_width) /\ Truthy(device2.screen_width)
        c2 == Truthy(device1.screen_height) /\ Truthy(device2.screen_height)
        c3 == Truthy(device1.screen_color_depth) /\ Truthy(device2.screen_color_depth)
        c4 == Truthy(device1.screen_pixel_ratio) /\ Truthy(device2.screen_pixel_ratio)
        diff == Abs(ToHundredths(device1.screen_pixel_ratio)
                    - ToHundredths(device2.screen_pixel_ratio))
        score == Ind(c1 /\ device1.screen_width = device2.screen_width)
                 + Ind(c2 /\ device1.screen_height = device2.screen_height)
                 + Ind(c3 /\ device1.screen_color_depth = device2.screen_color_depth)
                 + Ind(c4 /\ diff < 10)
        count == Ind(c1) + Ind(c2) + Ind(c3) + Ind(c4)
    IN  IF count > 0 THEN (score * SubUnit) \div count ELSE 0

Range(s) == {s[i] : i \in 1..Len(s)}

\* _compareFonts as it would be on the lists themselves, duplicates counted.
CompareFonts_Multiset(fonts1, fonts2) ==
    IF fonts1 = Null \/ fonts1 = Undef \/ fonts2 = Null \/ fonts2 = Undef THEN 0
    ELSE IF Len(fonts1) = 0 \/ Len(fonts2) = 0 THEN 0
    ELSE LET common == Cardinality({i \in 1..Len(fonts1) :
                                      \E j \in 1..Len(fonts2) : fonts1[i] = fonts2[j]})
         IN  (common * SubUnit) \div (Len(fonts1) + Len(fonts2) - common)

\* !fonts of a font list: true of null and undefined, false of every array.
NoList(fonts) == fonts = Null \/ fonts = Undef

\* A font list is a sequence of names.  The lists of identify are never
\* null (deviceInfoToProfile substitutes [] and a TEXT[] column returns an
\* array); a direct caller may pass null or undefined.
CompareFonts(fonts1, fonts2) ==
    IF NoList(fonts1) \/ NoList(fonts2) THEN 0
    ELSE IF Len(fonts1) = 0 \/ Len(fonts2) = 0 THEN 0
    ELSE LET set1 == Range(fonts1)
             set2 == Range(fonts2)
         IN  (Cardinality(set1 \cap set2) * SubUnit) \div Cardinality(set1 \cup set2)

Min(a, b) == IF a < b THEN a ELSE b

\* calculateSimilarity as it would be without the font score.
CalculateSimilarity_NoFonts(device1, device2) ==
    LET canvas   == CompareExact(device1.canvas_fingerprint, device2.canvas_fingerprint) * WeightCanvas
        audio    == CompareExact(device1.audio_fingerprint, device2.audio_fingerprint) * WeightAudio
        hardware == CompareHardware(device1, device2) * WeightHardware
        screen   == CompareScreen(device1, device2) * WeightScreen
        total    == canvas + audio + hardware + screen
    IN  [totalScore |-> Min(total, ScoreUnit),
         breakdown  |-> [canvas |-> canvas, audio |-> audio, hardware |-> hardware,
                         screen |-> screen, fonts |-> 0],
         isMatch    |-> total * 100 >= Threshold * ScoreUnit]

\* calculateSimilarity as it would be with a threshold that must be exceeded.
CalculateSimilarity_Strict(device1, device2) ==
    LET canvas   == CompareExact(device1.canvas_fingerprint, device2.canvas_fingerprint) * WeightCanvas
        audio    == CompareExact(device1.audio_fingerprint, device2.audio_fingerprint) * WeightAudio
        hardware == CompareHardware(device1, device2) * WeightHardware
        screen   == CompareScreen(device1, device2) * WeightScreen
        fonts    == CompareFonts(device1.fonts_list, device2.fonts_list) * WeightFonts
        total    == canvas + audio + hardware + screen + fonts
    IN  [totalScore |-> Min(total, ScoreUnit),
         breakdown  |-> [canvas |-> canvas, audio |-> audio, hardware |-> hardware,
                         screen |-> screen, fonts |-> fonts],
         isMatch    |-> total * 100 > Threshold * ScoreUnit]

CalculateSimilarity(device1, device2) ==
    LET canvas   == CompareExact(device1.canvas_fingerprint, device2.canvas_fingerprint) * WeightCanvas
        audio    == CompareExact(device1.audio_fingerprint, device2.audio_fingerprint) * WeightAudio
        hardware == CompareHardware(device1, device2) * WeightHardware
        screen   == CompareScreen(device1, device2) * WeightScreen
        fonts    == CompareFonts(device1.fonts_list, device2.fonts_list) * WeightFonts
        total    == canvas + audio + hardware + screen + fonts
    IN  [totalScore |-> Min(total, ScoreUnit),
         breakdown  |-> [canvas |-> canvas, audio |-> audio, hardware |-> hardware,
                         screen |-> screen, fonts |-> fonts],
         isMatch    |-> total * 100 >= Threshold * ScoreUnit]

\* The loop of findBestMatch over candidates[i..], carrying bestMatch (a
\* sequence of at most one element) and bestScore.
RECURSIVE BestFrom(_, _, _, _, _)
BestFrom(targetDevice, candidateDevices, i, bestMatch, bestScore) ==
    IF i > Len(candidateDevices) THEN bestMatch
    ELSE LET similarity == CalculateSimilarity(targetDevice, candidateDevices[i])
         IN  IF similarity.totalScore > bestScore
             THEN BestFrom(targetDevice, candidateDevices, i + 1,
                           <<[device |-> candidateDevices[i], similarity |-> similarity]>>,
                           similarity.totalScore)
             ELSE BestFrom(targetDevice, candidateDevices, i + 1, bestMatch, bestScore)

\* findBestMatch as it would be without the isMatch test on its result.
FindBestMatch_NoThreshold(targetDevice, candidateDevices) ==
    IF ~Truthy(candidateDevices) THEN <<>>
    ELSE IF Len(candidateDevices[3]) = 0 THEN <<>>
    ELSE BestFrom(targetDevice, candidateDevices[3], 1, <<>>, 0)

\* findBestMatch as it would be if a later candidate replaced an earlier
\* one of the same score: the loop run over the reversed array.
FindBestMatch_LastWins(targetDevice, candidateDevices) ==
    IF ~Truthy(candidateDevices) THEN <<>>
    ELSE IF Len(candidateDevices[3]) = 0 THEN <<>>
    ELSE LET n == Len(candidateDevices[3])
             reversed == [i \in 1..n |-> candidateDevices[3][n + 1 - i]]
             bestMatch == BestFrom(targetDevice, reversed, 1, <<>>, 0)
         IN  IF Len(bestMatch) > 0 /\ bestMatch[1].similarity.isMatch THEN bestMatch ELSE <<>>

\* candidateDevices is an array, null or undefined.  The result is a
\* sequence: empty for null, else the one best match.
FindBestMatch(targetDevice, candidateDevices) ==
    IF ~Truthy(candidateDevices) THEN <<>>
    ELSE IF Len(candidateDevices[3]) = 0 THEN <<>>
    ELSE LET bestMatch == BestFrom(targetDevice, candidateDevices[3], 1, <<>>, 0)
         IN  IF Len(bestMatch) > 0 /\ bestMatch[1].similarity.isMatch THEN bestMatch ELSE <<>>

\* The product/version tokens of the user-agent strings of the model, in the
\* order they occur in the string.
ProductTokens(ua) ==
    CASE ua = "Mozilla/5.0 Chrome/120 Safari/537" -> <<<<"Chrome", "120">>, <<"Safari", "537">>>>
      [] ua = "Mozilla/5.0 Chrome/121 Safari/537" -> <<<<"Chrome", "121">>, <<"Safari", "537">>>>
      [] ua = "Mozilla/5.0 Firefox/115"           -> <<<<"Firefox", "115">>>>
      [] ua = "Mozilla/5.0 Version/17 Safari/605" -> <<<<"Version", "17">>, <<"Safari", "605">>>>
      [] ua = "Mozilla/5.0 Chrome/120 Safari/537 Edg/120" ->
            <<<<"Chrome", "120">>, <<"Safari", "537">>, <<"Edg", "120">>>>
      [] ua = "Mozilla/5.0 Chrome/120 Safari/537 OPR/106" ->
            <<<<"Chrome", "120">>, <<"Safari", "537">>, <<"OPR", "106">>>>
      [] ua = "curl/7" -> <<<<"curl", "7">>>>
      [] ua = "curl/8" -> <<<<"curl", "8">>>>
      [] OTHER                                    -> <<>>

\* The first token of the string for the given product: String.match of
\* /Product\/(\d+)/.
RECURSIVE FirstToken(_, _, _)
FirstToken(tokens, product, i) ==
    IF i > Len(tokens) THEN <<>>
    ELSE IF tokens[i][1] = product THEN <<tokens[i]>>
    ELSE FirstToken(tokens, product, i + 1)

BrowserPatterns ==
    << <<"Chrome", "Chrome">>, <<"Firefox", "Firefox">>, <<"Safari", "Safari">>,
       <<"Edge", "Edg">>, <<"Opera", "OPR">> >>

RECURSIVE ExtractFrom(_, _)
ExtractFrom(tokens, i) ==
    IF i > Len(BrowserPatterns) THEN [name |-> "Unknown", version |-> "0"]
    ELSE LET match == FirstToken(tokens, BrowserPatterns[i][2], 1)
         IN  IF Len(match) > 0
             THEN [name |-> BrowserPatterns[i][1], version |-> match[1][2]]
             ELSE ExtractFrom(tokens, i + 1)

\* _extractBrowserInfo as it would be if a string without a known product
\* kept the version of its first product.
ExtractBrowserInfo_FirstProduct(userAgent) ==
    LET tokens == ProductTokens(userAgent[3])
        info == ExtractFrom(tokens, 1)
    IN  IF info.name = "Unknown" /\ Len(tokens) > 0
        THEN [name |-> "Unknown", version |-> tokens[1][2]]
        ELSE info

ExtractBrowserInfo(userAgent) == ExtractFrom(ProductTokens(userAgent[3]), 1)

IsBrowserUpdate(oldUA, newUA) ==
    IF ~Truthy(oldUA) \/ ~Truthy(newUA) THEN FALSE
    ELSE LET oldBrowser == ExtractBrowserInfo(oldUA)
             newBrowser == ExtractBrowserInfo(newUA)
         IN  oldBrowser.name = newBrowser.name /\ oldBrowser.version # newBrowser.version

\* classifyChange as it would be with the screen test first.
ClassifyChange_ScreenFirst(oldDevice, newDevice) ==
    LET similarity == CalculateSimilarity(oldDevice, newDevice)
        hasOSChange == oldDevice.platform # newDevice.platform
        hasHardwareChange ==
            \/ oldDevice.hardware_concurrency # newDevice.hardware_concurrency
            \/ oldDevice.device_memory # newDevice.device_memory
        hasScreenChange ==
            \/ oldDevice.screen_width # newDevice.screen_width
            \/ oldDevice.screen_height # newDevice.screen_height
        result(type, category) ==
            [type |-> type, category |-> category, confidence |-> similarity.totalScore]
    IN  IF hasScreenChange THEN result("minor", "screen_change")
        ELSE IF hasOSChange \/ hasHardwareChange
        THEN result("major", IF hasOSChange THEN "os_change" ELSE "hardware_change")
        ELSE IF IsBrowserUpdate(oldDevice.user_agent, newDevice.user_agent)
        THEN result("minor", "browser_update")
        ELSE IF oldDevice.ip_address # newDevice.ip_address THEN result("minor", "ip_change")
        ELSE result("minor", "environmental_change")

ClassifyChange(oldDevice, newDevice) ==
    LET similarity == CalculateSimilarity(oldDevice, newDevice)
        hasOSChange == oldDevice.platform # newDevice.platform
        hasHardwareChange ==
            \/ oldDevice.hardware_concurrency # newDevice.hardware_concurrency
            \/ oldDevice.device_memory # newDevice.device_memory
        hasScreenChange ==
            \/ oldDevice.screen_width # newDevice.screen_width
            \/ oldDevice.screen_height # newDevice.screen_height
        result(type, category) ==
            [type |-> type, category |-> category, confidence |-> similarity.totalScore]
    IN  IF hasOSChange \/ hasHardwareChange
        THEN result("major", IF hasOSChange THEN "os_change" ELSE "hardware_change")
        ELSE IF hasScreenChange THEN result("minor", "screen_change")
        ELSE IF IsBrowserUpdate(oldDevice.user_agent, newDevice.user_agent)
        THEN result("minor", "browser_update")
        ELSE IF oldDevice.ip_address # newDevice.ip_address THEN result("minor", "ip_change")
        ELSE result("minor", "environmental_change")

\* The fields of detectChanges as they would be without the address.
ScalarFields_NoAddress ==
    << "user_agent", "platform", "language", "timezone", "screen_width", "screen_height",
       "screen_color_depth", "screen_pixel_ratio", "hardware_concurrency", "device_memory",
       "canvas_fingerprint", "audio_fingerprint", "webgl_fingerprint", "country", "city" >>

ScalarFields ==
    << "user_agent", "platform", "language", "timezone", "screen_width", "screen_height",
       "screen_color_depth", "screen_pixel_ratio", "hardware_concurrency", "device_memory",
       "canvas_fingerprint", "audio_fingerprint", "webgl_fingerprint", "ip_address",
       "country", "city" >>

\* JSON.stringify of a font list: undefined for undefined, the text null
\* for null, and for an array the texts of its elements in order.
JsonStringify(fonts) ==
    IF fonts = Undef THEN Undef
    ELSE IF fonts = Null THEN Str("null")
    ELSE <<"json", 0, [i \in 1..Len(fonts) |-> <<"string", fonts[i]>>]>>

\* JSON.stringify of a plugin list: an element that is undefined or null
\* is written as null.
JsonStringifyValues(plugins) ==
    <<"json", 0, [i \in 1..Len(plugins) |->
                    IF plugins[i] \in {Undef, Null} THEN <<"null", "">>
                    ELSE <<"string", plugins[i][3]>>]>>

\* detectChanges as it would be if the font lists were compared as sets.
DetectChanges_Unordered(oldDevice, newDevice) ==
    LET differs(field) == oldDevice[field] # newDevice[field]
        fontsDiffer ==
            IF NoList(oldDevice.fonts_list) \/ NoList(newDevice.fonts_list)
            THEN oldDevice.fonts_list # newDevice.fonts_list
            ELSE Range(oldDevice.fonts_list) # Range(newDevice.fonts_list)
    IN  SelectSeq(ScalarFields, differs)
        \o (IF fontsDiffer THEN <<"fonts_list">> ELSE <<>>)
        \o (IF JsonStringifyValues(oldDevice.plugins_list)
                  # JsonStringifyValues(newDevice.plugins_list)
            THEN <<"plugins_list">> ELSE <<>>)

DetectChanges(oldDevice, newDevice) ==
    LET differs(field) == oldDevice[field] # newDevice[field]
    IN  SelectSeq(ScalarFields, differs)
        \o (IF JsonStringify(oldDevice.fonts_list) # JsonStringify(newDevice.fonts_list)
            THEN <<"fonts_list">> ELSE <<>>)
        \o (IF JsonStringifyValues(oldDevice.plugins_list)
                  # JsonStringifyValues(newDevice.plugins_list)
            THEN <<"plugins_list">> ELSE <<>>)

(***************************************************************************)
(* Requests                                                                *)
(***************************************************************************)
MaxCalls == 3

CallIds == 1..MaxCalls

ClientUUIDs == {"T1", "T2"}

\* The device_info payloads of the model.  A field the payload does not
\* have reads as undefined.  "A" is what the bundled client collects; "B"
\* is "A" on four cores; "C" is "A" without language and timezone and with
\* a null pixel ratio; "D" is "C" on four cores; "E" is another device;
\* "F" draws the canvas of "A" and differs from it in audio and fonts;
\* "G" is "C" after a browser update.
InfoA ==
    [canvasHash |-> Str("c1"), audioHash |-> Str("a1"), webglRenderer |-> Str("r1"),
     userAgent |-> Str("Mozilla/5.0 Chrome/120 Safari/537"), platform |-> Str("Win32"),
     language |-> Str("en-US"), timezone |-> Str("UTC"),
     width |-> Num(1920), height |-> Num(1080), colorDepth |-> Num(24),
     pixelRatio |-> Num(100), hardwareConcurrency |-> Num(8), deviceMemory |-> Num(16),
     fonts |-> <<"Arial", "Verdana">>, plugins |-> <<>>]

InfoC == [InfoA EXCEPT !.language = Undef, !.timezone = Undef, !.pixelRatio = Null]

DeviceInfoOf(name) ==
    CASE name = "A" -> InfoA
      [] name = "B" -> [InfoA EXCEPT !.hardwareConcurrency = Num(4)]
      [] name = "C" -> InfoC
      [] name = "D" -> [InfoC EXCEPT !.hardwareConcurrency = Num(4)]
      [] name = "E" -> [InfoA EXCEPT !.canvasHash = Str("c2"), !.audioHash = Str("a2"),
                                     !.fonts = <<"Helvetica">>]
      [] name = "F" -> [InfoA EXCEPT !.audioHash = Str("a3"), !.fonts = <<"Helvetica">>]
      [] name = "G" -> [InfoC EXCEPT !.userAgent = Str("Mozilla/5.0 Chrome/121 Safari/537")]

DeviceInfos == {"A", "B", "C", "D", "E", "F", "G"}

\* The requests of the specification that runs calls one at a time.
Requests == ClientUUIDs \X DeviceInfos

\* The requests of the specifications with interleaved calls or failures.
FewRequests == {<<"T1", "A">>, <<"T1", "C">>, <<"T2", "A">>}

DeviceInfoToProfile(deviceInfo, clientUUID) ==
    [client_uuid |-> clientUUID,
     canvas_fingerprint |-> HashFingerprint(deviceInfo.canvasHash),
     audio_fingerprint |-> HashFingerprint(deviceInfo.audioHash),
     webgl_fingerprint |-> HashFingerprint(deviceInfo.webglRenderer),
     user_agent |-> deviceInfo.userAgent,
     platform |-> deviceInfo.platform,
     language |-> deviceInfo.language,
     timezone |-> deviceInfo.timezone,
     screen_width |-> deviceInfo.width,
     screen_height |-> deviceInfo.height,
     screen_color_depth |-> deviceInfo.colorDepth,
     screen_pixel_ratio |-> deviceInfo.pixelRatio,
     hardware_concurrency |-> deviceInfo.hardwareConcurrency,
     device_memory |-> deviceInfo.deviceMemory,
     fonts_list |-> deviceInfo.fonts,
     plugins_list |-> deviceInfo.plugins,
     ip_address |-> Null,
     country |-> Null,
     city |-> Null]

(***************************************************************************)
(* Tables.  A row of user_identities has the primary key id and the        *)
(* external identifier user_identity_id; the other tables reference id.    *)
(***************************************************************************)
VARIABLES user_identities, user_device_profiles, device_change_history,
          identity_matching_logs, system_settings, now, calls, matcher, client

vars == <<user_identities, user_device_profiles, device_change_history,
          identity_matching_logs, system_settings, now, calls, matcher, client>>

\* Generated identifiers are random and taken to be fresh; the model names
\* them after the call that makes the INSERT, which inserts at most one
\* identity and one profile.
\* uuid_generate_v4() for the id of the identity, or of the profile, of call c.
IdentityKey(c) == <<"uuid", 2 * c - 1>>

ProfileKey(c) == <<"uuid", 2 * c>>

\* generate_user_identity_id: 'usr_' and twelve hex digits.
ExternalId(c) == <<"usr", c>>

\* generate_device_session_id: 'ses_' and twelve hex digits.
SessionId(c) == <<"ses", c>>

NoId == <<"null", 0>>

\* The subquery as it would be if it also found the row by its primary key.
SelectIdentityId_ByKey(identities, userId) ==
    IF \E i \in 1..Len(identities) :
          identities[i].user_identity_id = userId \/ identities[i].id = userId
    THEN identities[CHOOSE i \in 1..Len(identities) :
                        identities[i].user_identity_id = userId \/ identities[i].id = userId].id
    ELSE NoId

\* (SELECT id FROM user_identities WHERE user_identity_id = $1): the id of
\* the row whose external identifier is the parameter, NULL when none is.
SelectIdentityId(identities, userId) ==
    IF \E i \in 1..Len(identities) : identities[i].user_identity_id = userId
    THEN identities[CHOOSE i \in 1..Len(identities) :
                        identities[i].user_identity_id = userId].id
    ELSE NoId

\* The INSERT as it would be if it bound its parameter as the foreign key
\* instead of looking it up.
ProfileIdentitySubquery_Direct(identities, userId) ==
    IF \E i \in 1..Len(identities) : identities[i].id = userId THEN userId ELSE NoId

\* The subquery that gives the INSERT of _createDeviceSession the identity
\* of the new profile.
ProfileIdentitySubquery(identities, userId) == SelectIdentityId(identities, userId)

\* The identity row as it would be with counters that start at zero.
NewIdentityRow_ZeroCounts(id, externalId, time) ==
    [id |-> id, user_identity_id |-> externalId, total_sessions |-> 0, total_devices |-> 0,
     last_seen_at |-> time, is_active |-> TRUE]

\* The row INSERT INTO user_identities (total_sessions, total_devices)
\* VALUES (1, 1) stores, with the generated id and external identifier.
NewIdentityRow(id, externalId, time) ==
    [id |-> id, user_identity_id |-> externalId, total_sessions |-> 1, total_devices |-> 1,
     last_seen_at |-> time, is_active |-> TRUE]

\* The row INSERT INTO user_device_profiles stores for a profile.
ProfileRow(id, identityId, sessionId, profile, raw, time) ==
    [id |-> id,
     user_identity_id |-> identityId,
     device_session_id |-> sessionId,
     client_uuid |-> profile.client_uuid,
     canvas_fingerprint |-> ColumnRoundTrip("varchar", profile.canvas_fingerprint),
     audio_fingerprint |-> ColumnRoundTrip("varchar", profile.audio_fingerprint),
     webgl_fingerprint |-> ColumnRoundTrip("varchar", profile.webgl_fingerprint),
     user_agent |-> ColumnRoundTrip("text", profile.user_agent),
     platform |-> ColumnRoundTrip("varchar", profile.platform),
     language |-> ColumnRoundTrip("varchar", profile.language),
     timezone |-> ColumnRoundTrip("varchar", profile.timezone),
     screen_width |-> ColumnRoundTrip("integer", profile.screen_width),
     screen_height |-> ColumnRoundTrip("integer", profile.screen_height),
     screen_color_depth |-> ColumnRoundTrip("integer", profile.screen_color_depth),
     screen_pixel_ratio |-> ColumnRoundTrip("decimal", profile.screen_pixel_ratio),
     hardware_concurrency |-> ColumnRoundTrip("integer", profile.hardware_concurrency),
     device_memory |-> ColumnRoundTrip("integer", profile.device_memory),
     fonts_list |-> profile.fonts_list,
     plugins_list |-> profile.plugins_list,
     ip_address |-> ColumnRoundTrip("inet", profile.ip_address),
     country |-> ColumnRoundTrip("varchar", profile.country),
     city |-> ColumnRoundTrip("varchar", profile.city),
     device_info_raw |-> raw,
     first_seen_at |-> time,
     last_seen_at |-> time,
     is_current |-> TRUE,
     visit_count |-> 1]

\* The object node-postgres builds for a row of the SELECT of
\* _identifyByUUID: a property per selected column.  language and timezone
\* are not selected, so reading them gives undefined.
UUIDRow(row, identities) ==
    [id |-> row.id,
     user_identity_id |-> row.user_identity_id,
     device_session_id |-> row.device_session_id,
     canvas_fingerprint |-> row.canvas_fingerprint,
     audio_fingerprint |-> row.audio_fingerprint,
     webgl_fingerprint |-> row.webgl_fingerprint,
     user_agent |-> row.user_agent,
     platform |-> row.platform,
     language |-> Undef,
     timezone |-> Undef,
     screen_width |-> row.screen_width,
     screen_height |-> row.screen_height,
     screen_color_depth |-> row.screen_color_depth,
     screen_pixel_ratio |-> row.screen_pixel_ratio,
     hardware_concurrency |-> row.hardware_concurrency,
     device_memory |-> row.device_memory,
     fonts_list |-> row.fonts_list,
     plugins_list |-> row.plugins_list,
     ip_address |-> row.ip_address,
     country |-> row.country,
     city |-> row.city,
     user_id |-> (CHOOSE u \in Range(identities) : u.id = row.user_identity_id).user_identity_id]

\* The object for a row of the SELECT of _identifyByFingerprint, which also
\* leaves out country and city.
FingerprintRow(row, identities) ==
    [UUIDRow(row, identities) EXCEPT !.country = Undef, !.city = Undef]

\* A match_confidence value as its DECIMAL(5,4) column holds it, in
\* ten-thousandths (rounded half up).
ConfidenceColumn(score) == (score * 10000 + ScoreUnit \div 2) \div ScoreUnit

\* SQL equality of two nullable columns or parameters: unknown (not true)
\* when either side is NULL.
SqlEq(a, b) == a # Null /\ b # Null /\ a = b

\* The sequences that list every index of rows in set, most recently seen
\* first; rows seen at the same time come in either order.
OrderByLastSeenDesc(rows, set) ==
    {order \in [1..Cardinality(set) -> set] :
        /\ \A i, j \in 1..Cardinality(set) : i # j => order[i] # order[j]
        /\ \A i, j \in 1..Cardinality(set) :
              i < j => rows[order[i]].last_seen_at >= rows[order[j]].last_seen_at}

CandidateLimit == 10

\* The candidate query as it would be if it returned no row.
Limit_None(s, n) == <<>>

Limit(s, n) == SubSeq(s, 1, Min(n, Len(s)))

DetectDeviceChange(currentDevice, newDeviceInfo) ==
    LET newDevice == DeviceInfoToProfile(newDeviceInfo, Null)
        changeClassification == ClassifyChange(currentDevice, newDevice)
        changedFields == DetectChanges(currentDevice, newDevice)
    IN  [hasChanged |-> Len(changedFields) > 0,
         changeType |-> Str(changeClassification.type),
         changeCategory |-> Str(changeClassification.category),
         changedFields |-> changedFields,
         confidence |-> changeClassification.confidence]

\* The FingerprintMatcher has no state of its own; matcher holds the last
\* call made on it directly, with its arguments and what it returned.
IdleMatcher == [op |-> "idle", args |-> <<>>, result |-> <<>>]

\* The three storages of the browser the UUIDManager runs in.  A storage
\* is "ok", "undefined" (the global does not exist: typeof ... ===
\* 'undefined') or "error" (its access throws or its request fails); value
\* is the UUID it holds or null.  generated counts the UUIDs generated and
\* returned holds the result of a call of getOrCreateUUID that has just
\* returned, with the storages as they were when it began.
Storages == <<"localStorage", "indexedDB", "cookie">>

NewClient ==
    [storage |-> [name \in Range(Storages) |-> [status |-> "ok", value |-> Null]],
     generated |-> 0,
     returned |-> <<>>]

IdleCall ==
    [pc |-> "idle", clientUUID |-> "", deviceInfo |-> "", uuidMatch |-> <<>>,
     changeDetection |-> <<>>, fingerprintMatch |-> <<>>, newSession |-> <<>>,
     userId |-> <<>>, outcome |-> "", tx |-> <<>>, txSettings |-> FALSE, newUser |-> <<>>, result |-> <<>>, error |-> "", failedAt |-> "",
     before |-> <<>>]

Init ==
    /\ user_identities = <<>>
    /\ user_device_profiles = <<>>
    /\ device_change_history = <<>>
    /\ identity_matching_logs = <<>>
    /\ system_settings = [registration_enabled |-> TRUE]
    /\ now = 0
    /\ matcher = IdleMatcher
    /\ calls = [c \in CallIds |-> IdleCall]
    /\ client = NewClient

Finished(c) == calls[c].pc \in {"returned", "raised", "crashed"}

Active(c) == calls[c].pc # "idle" /\ ~Finished(c)

\* POST /identify with a client_uuid and a device_info that pass the
\* validation of the route: identify begins.
Start(c, clientUUID, deviceInfo) ==
    /\ calls[c].pc = "idle"
    /\ \A d \in CallIds : d < c => calls[d].pc # "idle"
    /\ now' = now + 1
    /\ calls' = [calls EXCEPT ![c] =
           [IdleCall EXCEPT !.pc = "identifyByUUID", !.clientUUID = clientUUID,
                            !.deviceInfo = deviceInfo,
                            !.before = <<[profiles |-> user_device_profiles,
                                          changes |-> device_change_history,
                                          identities |-> user_identities,
                                          logs |-> identity_matching_logs,
                                          settings |-> system_settings]>>]]
    /\ UNCHANGED <<client, system_settings, matcher, user_identities, user_device_profiles, device_change_history,
                   identity_matching_logs>>

\* _identifyByUUID, then _detectDeviceChange on the row it found.
IdentifyByUUID(c) ==
    /\ calls[c].pc = "identifyByUUID"
    /\ LET set == {i \in 1..Len(user_device_profiles) :
                      /\ user_device_profiles[i].client_uuid = Str(calls[c].clientUUID)
                      /\ user_device_profiles[i].is_current}
       IN  IF set = {}
           THEN calls' = [calls EXCEPT ![c].pc = "identifyByFingerprint"]
           ELSE \E order \in OrderByLastSeenDesc(user_device_profiles, set) :
                  LET uuidMatch == UUIDRow(user_device_profiles[order[1]], user_identities)
                      changeDetection ==
                          DetectDeviceChange(uuidMatch, DeviceInfoOf(calls[c].deviceInfo))
                  IN  calls' = [calls EXCEPT
                          ![c].uuidMatch = <<uuidMatch>>,
                          ![c].changeDetection = <<changeDetection>>,
                          ![c].outcome = "recognized",
                          ![c].pc = IF changeDetection.hasChanged
                                    THEN "createDeviceSession:update"
                                    ELSE "updateDeviceSession"]
    /\ UNCHANGED <<client, system_settings, matcher, user_identities, user_device_profiles, device_change_history,
                   identity_matching_logs, now>>

\* _identifyByFingerprint: the candidate query and findBestMatch.
IdentifyByFingerprint(c) ==
    /\ calls[c].pc = "identifyByFingerprint"
    /\ LET deviceInfo == DeviceInfoOf(calls[c].deviceInfo)
           canvasHash == HashFingerprint(deviceInfo.canvasHash)
           audioHash == HashFingerprint(deviceInfo.audioHash)
           set == {i \in 1..Len(user_device_profiles) :
                      /\ \/ SqlEq(user_device_profiles[i].canvas_fingerprint, canvasHash)
                         \/ SqlEq(user_device_profiles[i].audio_fingerprint, audioHash)
                      /\ \E u \in Range(user_identities) :
                            u.id = user_device_profiles[i].user_identity_id /\ u.is_active}
       IN  \E order \in OrderByLastSeenDesc(user_device_profiles, set) :
              LET exactMatch == Limit([k \in 1..Len(order) |->
                                         FingerprintRow(user_device_profiles[order[k]],
                                                        user_identities)], CandidateLimit)
                  bestMatch == FindBestMatch(DeviceInfoToProfile(deviceInfo, Null),
                                             Arr(exactMatch))
              IN  IF Len(bestMatch) = 0
                  THEN calls' = [calls EXCEPT ![c].pc = "createNewUser:identity",
                                              ![c].outcome = "new"]
                  ELSE calls' = [calls EXCEPT
                          ![c].fingerprintMatch =
                              <<[device |-> bestMatch[1].device,
                                 confidence |-> bestMatch[1].similarity.totalScore]>>,
                          ![c].changeDetection =
                              <<[changeType |-> Str("device_reset"),
                                 changeCategory |-> Undef,
                                 changedFields |-> <<"client_uuid">>,
                                 confidence |-> bestMatch[1].similarity.totalScore]>>,
                          ![c].outcome = "recovered",
                          ![c].pc = "createDeviceSession:update"]
    /\ UNCHANGED <<client, system_settings, matcher, user_identities, user_device_profiles, device_change_history,
                   identity_matching_logs, now>>

\* The identifier identify passes on as the user: the user_identity_id
\* property of the matched row.
MatchedUserId(c) ==
    IF calls[c].userId # <<>> THEN calls[c].userId[1]
    ELSE IF calls[c].outcome = "recognized" THEN calls[c].uuidMatch[1].user_identity_id
    ELSE calls[c].fingerprintMatch[1].device.user_identity_id

MatchedSessionId(c) ==
    IF calls[c].outcome = "recognized" THEN calls[c].uuidMatch[1].device_session_id
    ELSE calls[c].fingerprintMatch[1].device.device_session_id

\* UPDATE user_device_profiles SET is_current = false WHERE user_identity_id
\* = (SELECT id ...): no row when the subquery is NULL.
MarkNotCurrent(profiles, identities, userId) ==
    [i \in 1..Len(profiles) |->
        IF profiles[i].user_identity_id = SelectIdentityId(identities, userId)
        THEN [profiles[i] EXCEPT !.is_current = FALSE]
        ELSE profiles[i]]

\* UPDATE user_identities SET total_sessions = total_sessions + 1,
\* total_devices = (SELECT COUNT(DISTINCT device_session_id) FROM
\* user_device_profiles WHERE user_identity_id = id) WHERE user_identity_id
\* = $1; both columns of the subquery are columns of user_device_profiles.
UpdateStatistics(identities, profiles, userId) ==
    [i \in 1..Len(identities) |->
        IF identities[i].user_identity_id = userId
        THEN [identities[i] EXCEPT
                 !.total_sessions = @ + 1,
                 !.total_devices = Cardinality({p.device_session_id : p \in
                     {q \in Range(profiles) : q.user_identity_id = q.id}})]
        ELSE identities[i]]

\* The change event as it would be with the previous session as its
\* device session.
ChangeRow_PreviousAsSession(identityId, sessionId, previousSessionId, changeDetection, method, time) ==
    [user_identity_id |-> identityId,
     device_session_id |-> previousSessionId,
     previous_session_id |-> previousSessionId,
     change_type |-> changeDetection.changeType,
     change_category |-> ColumnRoundTrip("varchar", changeDetection.changeCategory),
     changed_fields |-> changeDetection.changedFields,
     match_confidence |-> ConfidenceColumn(changeDetection.confidence),
     recovery_method |-> method,
     detected_at |-> time]

\* The change event as it would be with the new session as its previous one.
ChangeRow_OwnPrevious(identityId, sessionId, previousSessionId, changeDetection, method, time) ==
    [user_identity_id |-> identityId,
     device_session_id |-> sessionId,
     previous_session_id |-> sessionId,
     change_type |-> changeDetection.changeType,
     change_category |-> ColumnRoundTrip("varchar", changeDetection.changeCategory),
     changed_fields |-> changeDetection.changedFields,
     match_confidence |-> ConfidenceColumn(changeDetection.confidence),
     recovery_method |-> method,
     detected_at |-> time]

ChangeRow(identityId, sessionId, previousSessionId, changeDetection, method, time) ==
    [user_identity_id |-> identityId,
     device_session_id |-> sessionId,
     previous_session_id |-> previousSessionId,
     change_type |-> changeDetection.changeType,
     change_category |-> ColumnRoundTrip("varchar", changeDetection.changeCategory),
     changed_fields |-> changeDetection.changedFields,
     match_confidence |-> ConfidenceColumn(changeDetection.confidence),
     recovery_method |-> method,
     detected_at |-> time]

\* A rejected statement as it would be if identify started over after it.
Throw_Retry(c, error) ==
    calls' = [calls EXCEPT ![c].pc = "identifyByUUID", ![c].error = error,
                           ![c].failedAt = calls[c].pc, ![c].tx = <<>>]

\* A rejected statement as it would be without the try block around it.
Throw_NoCatch(c, error) ==
    calls' = [calls EXCEPT ![c].pc = "raised", ![c].error = error,
                           ![c].failedAt = calls[c].pc, ![c].tx = <<>>]

Throw(c, error) ==
    calls' = [calls EXCEPT ![c].pc = "catch", ![c].error = error,
                           ![c].failedAt = calls[c].pc, ![c].tx = <<>>]

\* The statements of lines 28-42 and 79-94 of identify, one per step: the
\* UPDATE, the INSERT and the UPDATE of _createDeviceSession, then the
\* INSERT of _recordDeviceChange.  An INSERT whose identity subquery is
\* NULL violates NOT NULL and throws.
Supersede(c) ==
    LET userId == MatchedUserId(c)
        profileIdentityId == ProfileIdentitySubquery(user_identities, userId)
        changeIdentityId == SelectIdentityId(user_identities, userId)
    IN
    CASE calls[c].pc = "createDeviceSession:update" ->
            /\ user_device_profiles' = MarkNotCurrent(user_device_profiles, user_identities, userId)
            /\ calls' = [calls EXCEPT ![c].pc = "createDeviceSession:insert"]
            /\ UNCHANGED <<client, system_settings, matcher, user_identities, device_change_history,
                           identity_matching_logs, now>>
      [] calls[c].pc = "createDeviceSession:insert" ->
            IF profileIdentityId = NoId
            THEN /\ Throw(c, "not_null_violation")
                 /\ UNCHANGED <<client, system_settings, matcher, user_identities, user_device_profiles, device_change_history,
                                identity_matching_logs, now>>
            ELSE /\ user_device_profiles' = Append(user_device_profiles,
                        ProfileRow(ProfileKey(c), profileIdentityId, SessionId(c),
                                   DeviceInfoToProfile(DeviceInfoOf(calls[c].deviceInfo),
                                                       Str(calls[c].clientUUID)),
                                   calls[c].deviceInfo, now))
                 /\ calls' = [calls EXCEPT ![c].newSession = <<SessionId(c)>>,
                                           ![c].pc = "createDeviceSession:statistics"]
                 /\ UNCHANGED <<client, system_settings, matcher, user_identities, device_change_history,
                                identity_matching_logs, now>>
      [] calls[c].pc = "createDeviceSession:statistics" ->
            /\ user_identities' = UpdateStatistics(user_identities, user_device_profiles, userId)
            /\ calls' = IF calls[c].userId # <<>>
                         THEN [calls EXCEPT ![c].pc = "returned",
                                            ![c].result =
                                                <<[device_session_id |-> calls[c].newSession[1]]>>]
                         ELSE [calls EXCEPT ![c].pc = "recordDeviceChange"]
            /\ UNCHANGED <<client, system_settings, matcher, user_device_profiles, device_change_history,
                           identity_matching_logs, now>>
      [] calls[c].pc = "recordDeviceChange" ->
            IF changeIdentityId = NoId
            THEN /\ Throw(c, "not_null_violation")
                 /\ UNCHANGED <<client, system_settings, matcher, user_identities, user_device_profiles, device_change_history,
                                identity_matching_logs, now>>
            ELSE /\ device_change_history' = Append(device_change_history,
                        ChangeRow(changeIdentityId, calls[c].newSession[1], MatchedSessionId(c),
                                  calls[c].changeDetection[1], "device_change", now))
                 /\ calls' = [calls EXCEPT ![c].pc = "updateUserLastSeen"]
                 /\ UNCHANGED <<client, system_settings, matcher, user_identities, user_device_profiles,
                                identity_matching_logs, now>>
      [] OTHER -> FALSE

\* _updateDeviceSession: the profile-touch of the token match without change.
UpdateDeviceSession(c) ==
    /\ calls[c].pc = "updateDeviceSession"
    /\ user_device_profiles' =
          [i \in 1..Len(user_device_profiles) |->
              IF user_device_profiles[i].device_session_id = calls[c].uuidMatch[1].device_session_id
              THEN [user_device_profiles[i] EXCEPT !.last_seen_at = now,
                                                  !.visit_count = @ + 1,
                                                  !.device_info_raw = calls[c].deviceInfo]
              ELSE user_device_profiles[i]]
    /\ calls' = [calls EXCEPT ![c].pc = "updateUserLastSeen"]
    /\ UNCHANGED <<client, system_settings, matcher, user_identities, device_change_history, identity_matching_logs, now>>

\* _updateUserLastSeen, called with the identifier identify passes on.
UpdateUserLastSeen(c) ==
    /\ calls[c].pc = "updateUserLastSeen"
    /\ user_identities' =
          [i \in 1..Len(user_identities) |->
              IF user_identities[i].user_identity_id = MatchedUserId(c)
              THEN [user_identities[i] EXCEPT !.last_seen_at = now]
              ELSE user_identities[i]]
    /\ calls' = [calls EXCEPT ![c].pc = "logMatching"]
    /\ UNCHANGED <<client, system_settings, matcher, user_device_profiles, device_change_history, identity_matching_logs, now>>

\* The first INSERT as it would be on a connection of its own, outside the
\* transaction: the identity row is in the table at once.
CreateNewUser_Autocommit(c) ==
    /\ calls[c].pc = "createNewUser:identity"
    /\ user_identities' = Append(user_identities,
                                  NewIdentityRow(IdentityKey(c), ExternalId(c), now))
    /\ calls' = [calls EXCEPT
          ![c].tx = <<NewIdentityRow(IdentityKey(c), ExternalId(c), now)>>,
          ![c].pc = "createNewUser:profile"]
    /\ UNCHANGED <<client, system_settings, matcher, user_device_profiles, device_change_history, identity_matching_logs, now>>

\* The trigger disable_registration_after_first_user, AFTER INSERT ON
\* user_identities: it counts the rows the inserting transaction sees (the
\* committed ones and its own) and, when that is one, sets
\* registration_enabled to false in the same transaction.
DisableRegistrationAfterFirstUser(identities) == Len(identities) + 1 = 1

\* _createNewUser: BEGIN, three INSERTs and COMMIT on one client.  The rows
\* of the open transaction are in tx and reach the tables at COMMIT; other
\* connections do not see them before (READ COMMITTED).
CreateNewUser(c) ==
    CASE calls[c].pc = "createNewUser:identity" ->
            /\ calls' = [calls EXCEPT
                  ![c].tx = <<NewIdentityRow(IdentityKey(c), ExternalId(c), now)>>,
                  ![c].txSettings = DisableRegistrationAfterFirstUser(user_identities),
                  ![c].pc = "createNewUser:profile"]
            /\ UNCHANGED <<client, system_settings, matcher, user_identities, user_device_profiles, device_change_history,
                           identity_matching_logs, now>>
      [] calls[c].pc = "createNewUser:profile" ->
            /\ calls' = [calls EXCEPT
                  ![c].tx = Append(@,
                        ProfileRow(ProfileKey(c), calls[c].tx[1].id, SessionId(c),
                                   DeviceInfoToProfile(DeviceInfoOf(calls[c].deviceInfo),
                                                       Str(calls[c].clientUUID)),
                                   calls[c].deviceInfo, now)),
                  ![c].pc = "createNewUser:change"]
            /\ UNCHANGED <<client, system_settings, matcher, user_identities, user_device_profiles, device_change_history,
                           identity_matching_logs, now>>
      [] calls[c].pc = "createNewUser:change" ->
            /\ calls' = [calls EXCEPT
                  ![c].tx = Append(@,
                        ChangeRow(calls[c].tx[1].id, calls[c].tx[2].device_session_id, NoId,
                                  [changeType |-> Str("new_device"),
                                   changeCategory |-> Str("initial_registration"),
                                   changedFields |-> <<>>,
                                   confidence |-> ScoreUnit],
                                  "new_user", now)),
                  ![c].pc = "createNewUser:commit"]
            /\ UNCHANGED <<client, system_settings, matcher, user_identities, user_device_profiles, device_change_history,
                           identity_matching_logs, now>>
      [] calls[c].pc = "createNewUser:commit" ->
            /\ user_identities' = Append(user_identities, calls[c].tx[1])
            /\ user_device_profiles' = Append(user_device_profiles, calls[c].tx[2])
            /\ device_change_history' = Append(device_change_history, calls[c].tx[3])
            /\ calls' = [calls EXCEPT
                  ![c].newUser = <<[user_identity_id |-> calls[c].tx[1].user_identity_id,
                                    device_session_id |-> calls[c].tx[2].device_session_id]>>,
                  ![c].tx = <<>>,
                  ![c].pc = "logMatching"]
            /\ system_settings' = IF calls[c].txSettings
                                   THEN [system_settings EXCEPT !.registration_enabled = FALSE]
                                   ELSE system_settings
            /\ UNCHANGED <<client, matcher, identity_matching_logs, now>>
      [] OTHER -> FALSE

LogRow(c, userId, status, method, confidence) ==
    LET deviceInfo == DeviceInfoOf(calls[c].deviceInfo)
    IN  [client_uuid |-> Str(calls[c].clientUUID),
         user_identity_id |-> SelectIdentityId(user_identities, userId),
         match_status |-> status,
         match_method |-> method,
         match_confidence |-> ConfidenceColumn(confidence),
         canvas_fingerprint |-> HashFingerprint(deviceInfo.canvasHash),
         audio_fingerprint |-> HashFingerprint(deviceInfo.audioHash),
         attempted_at |-> now]

\* The object identify returns on each of its four paths.
ResultOf(c) ==
    CASE calls[c].outcome = "new" ->
            [user_id |-> calls[c].newUser[1].user_identity_id,
             session_id |-> calls[c].newUser[1].device_session_id,
             status |-> "new", confidence |-> ScoreUnit,
             is_device_changed |-> FALSE, change_type |-> Undef]
      [] calls[c].outcome = "recovered" ->
            [user_id |-> MatchedUserId(c),
             session_id |-> calls[c].newSession[1],
             status |-> "recovered", confidence |-> calls[c].fingerprintMatch[1].confidence,
             is_device_changed |-> TRUE, change_type |-> Str("device_reset")]
      [] calls[c].outcome = "recognized" /\ calls[c].changeDetection[1].hasChanged ->
            [user_id |-> MatchedUserId(c),
             session_id |-> calls[c].newSession[1],
             status |-> "recognized", confidence |-> ScoreUnit,
             is_device_changed |-> TRUE,
             change_type |-> calls[c].changeDetection[1].changeType]
      [] OTHER ->
            [user_id |-> MatchedUserId(c),
             session_id |-> MatchedSessionId(c),
             status |-> "recognized", confidence |-> ScoreUnit,
             is_device_changed |-> FALSE, change_type |-> Undef]

\* The _logMatching call that ends each of the four paths, and the return.
LogMatching(c) ==
    /\ calls[c].pc = "logMatching"
    /\ LET result == ResultOf(c)
           method == CASE calls[c].outcome = "new" -> "new_user"
                       [] calls[c].outcome = "recovered" -> "fingerprint_match"
                       [] OTHER -> "uuid_direct"
       IN  /\ identity_matching_logs' = Append(identity_matching_logs,
                  LogRow(c, result.user_id, result.status, method, result.confidence))
           /\ calls' = [calls EXCEPT ![c].result = <<result>>, ![c].pc = "returned"]
    /\ UNCHANGED <<client, system_settings, matcher, user_identities, user_device_profiles, device_change_history, now>>

\* The catch block as it would be if it only rethrew.
Catch_NoLog(c) ==
    /\ calls[c].pc = "catch"
    /\ calls' = [calls EXCEPT ![c].pc = "raised"]
    /\ UNCHANGED <<client, system_settings, matcher, user_identities, user_device_profiles, device_change_history,
                   identity_matching_logs, now>>

\* The catch block of identify: log the attempt as failed, rethrow.
Catch(c) ==
    /\ calls[c].pc = "catch"
    /\ identity_matching_logs' = Append(identity_matching_logs,
           LogRow(c, NoId, "failed", "null", 0))
    /\ calls' = [calls EXCEPT ![c].pc = "raised"]
    /\ UNCHANGED <<client, system_settings, matcher, user_identities, user_device_profiles, device_change_history, now>>

Statements ==
    {"identifyByUUID", "identifyByFingerprint", "createDeviceSession:update",
     "createDeviceSession:insert", "createDeviceSession:statistics", "recordDeviceChange",
     "updateDeviceSession", "updateUserLastSeen", "logMatching",
     "createNewUser:identity", "createNewUser:profile", "createNewUser:change",
     "createNewUser:commit"}

\* The statement the call is about to run is rejected by the database: the
\* awaited query throws.  _createNewUser rolls its transaction back and
\* rethrows.  In the catch block the rejected statement is the failed-status
\* log itself, and its error is the one that leaves identify.
Fail(c) ==
    /\ \/ /\ calls[c].pc \in Statements
          /\ Throw(c, "persistence_failure")
       \/ /\ calls[c].pc = "catch"
          /\ calls' = [calls EXCEPT ![c].pc = "raised", ![c].error = "log_failure",
                                    ![c].failedAt = "catch"]
    /\ UNCHANGED <<client, system_settings, matcher, user_identities, user_device_profiles, device_change_history,
                   identity_matching_logs, now>>

\* The server process dies between two statements of a call; an open
\* transaction is never committed.
Crash(c) ==
    /\ Active(c)
    /\ calls' = [calls EXCEPT ![c].pc = "crashed", ![c].failedAt = calls[c].pc,
                              ![c].tx = <<>>]
    /\ UNCHANGED <<client, system_settings, matcher, user_identities, user_device_profiles, device_change_history,
                   identity_matching_logs, now>>

Step(c) ==
    \/ IdentifyByUUID(c)
    \/ IdentifyByFingerprint(c)
    \/ Supersede(c)
    \/ UpdateDeviceSession(c)
    \/ UpdateUserLastSeen(c)
    \/ CreateNewUser(c)
    \/ LogMatching(c)
    \/ Catch(c)

\* PATCH /admin/settings/registration_enabled with a boolean value, by an
\* admin: the upsert of the setting.
UpdateSetting(value) ==
    /\ system_settings' = [system_settings EXCEPT !.registration_enabled = value]
    /\ UNCHANGED <<client, user_identities, user_device_profiles, device_change_history,
                   identity_matching_logs, now, calls, matcher>>

\* Calls run one at a time to completion.
Next ==
    \/ \E c \in CallIds, request \in Requests :
          /\ \A d \in CallIds : ~Active(d)
          /\ Start(c, request[1], request[2])
    \/ \E c \in CallIds : Step(c)

Spec == Init /\ [][Next]_vars

\* The requests of the specification with an admin.
AdminRequests == {<<"T1", "A">>, <<"T1", "C">>, <<"T2", "E">>}

\* Calls run one at a time; between two calls the admin may change the
\* setting.
NextAdmin ==
    \/ \E c \in CallIds, request \in AdminRequests :
          /\ \A d \in CallIds : ~Active(d)
          /\ Start(c, request[1], request[2])
    \/ \E c \in CallIds : Step(c)
    \/ \E value \in BOOLEAN :
          /\ \A d \in CallIds : ~Active(d)
          /\ UpdateSetting(value)

SpecAdmin == Init /\ [][NextAdmin]_vars

MaxConcurrent == 2

\* Up to MaxConcurrent calls are in flight and their statements interleave.
NextConc ==
    \/ \E c \in CallIds, request \in FewRequests :
          /\ Cardinality({d \in CallIds : Active(d)}) < MaxConcurrent
          /\ Start(c, request[1], request[2])
    \/ \E c \in CallIds : Step(c)

SpecConc == Init /\ [][NextConc]_vars

MaxFailCalls == 2

\* Calls run one at a time; any statement may fail and the process may die.
NextFail ==
    \/ \E c \in CallIds, request \in FewRequests :
          /\ c <= MaxFailCalls
          /\ \A d \in CallIds : ~Active(d)
          /\ Start(c, request[1], request[2])
    \/ \E c \in CallIds : Step(c)
    \/ \E c \in CallIds : Fail(c)
    \/ \E c \in CallIds : Crash(c)

SpecFail == Init /\ [][NextFail]_vars

\* Calls run one at a time and any statement may be rejected.  A statement
\* that was sent to the database is answered: the step that runs it, or
\* its rejection, eventually happens (at most one call is in progress).
LiveRequests == {<<"T1", "C">>, <<"T2", "C">>}

NextLive ==
    \/ \E c \in CallIds, request \in LiveRequests :
          /\ c <= MaxFailCalls
          /\ \A d \in CallIds : ~Active(d)
          /\ Start(c, request[1], request[2])
    \/ \E c \in CallIds : Step(c)
    \/ \E c \in CallIds : Fail(c)

SpecLive ==
    /\ Init /\ [][NextLive]_vars
    /\ WF_vars(\E c \in CallIds : Step(c) \/ Fail(c))

\* _createDeviceSession(userId, clientUUID, deviceInfo) called on its own,
\* with the external identifier of an Identity that exists: its three
\* statements are the first three steps of Supersede, and it returns the
\* new session.
StartCreateDeviceSession(c, userId, clientUUID, deviceInfo) ==
    /\ calls[c].pc = "idle"
    /\ \A d \in CallIds : d < c => calls[d].pc # "idle"
    /\ now' = now + 1
    /\ calls' = [calls EXCEPT ![c] =
           [IdleCall EXCEPT !.pc = "createDeviceSession:update", !.userId = <<userId>>,
                            !.clientUUID = clientUUID, !.deviceInfo = deviceInfo,
                            !.outcome = "createDeviceSession",
                            !.before = <<[profiles |-> user_device_profiles,
                                          changes |-> device_change_history,
                                          identities |-> user_identities,
                                          logs |-> identity_matching_logs,
                                          settings |-> system_settings]>>]]
    /\ UNCHANGED <<client, system_settings, matcher, user_identities, user_device_profiles,
                   device_change_history, identity_matching_logs>>

\* Calls of identify and of _createDeviceSession, one at a time.
NextSession ==
    \/ \E c \in CallIds, request \in FewRequests :
          /\ \A d \in CallIds : ~Active(d)
          /\ Start(c, request[1], request[2])
    \/ \E c \in CallIds, request \in FewRequests :
          /\ \A d \in CallIds : ~Active(d)
          /\ \E i \in 1..Len(user_identities) :
                StartCreateDeviceSession(c, user_identities[i].user_identity_id,
                                         request[1], request[2])
    \/ \E c \in CallIds : Step(c)

SpecSession == Init /\ [][NextSession]_vars

(***************************************************************************)
(* UUIDManager: the token of the client in the storages of the browser.    *)
(***************************************************************************)
\* crypto.randomUUID(): random, taken to be fresh; the n-th generated UUID.
GenerateUUID(n) == <<"uuid", n, "">>

\* _getFromLocalStorage: null when localStorage is undefined or getItem
\* throws (the error is caught), otherwise the item.
GetFromLocalStorage(storage) ==
    IF storage.localStorage.status = "ok" THEN storage.localStorage.value ELSE Null

\* _getFromIndexedDB: the promise resolves with null when indexedDB is
\* undefined and with the stored value when the requests succeed; when a
\* request fails the promise is rejected.  The promise is returned without
\* await, so the try block of _getFromIndexedDB does not catch the
\* rejection.
GetFromIndexedDB(storage) ==
    CASE storage.indexedDB.status = "undefined" -> <<"resolved", Null>>
      [] storage.indexedDB.status = "error"     -> <<"rejected", Null>>
      [] OTHER -> <<"resolved", storage.indexedDB.value>>

\* _getFromCookie: null when document is undefined or reading throws.
GetFromCookie(storage) ==
    IF storage.cookie.status = "ok" THEN storage.cookie.value ELSE Null

\* _syncToAllStorage: the three saves under Promise.allSettled; a save
\* writes when its storage is ok and otherwise returns false or is
\* rejected, which is ignored.
SyncToAllStorage(storage, uuid) ==
    [name \in DOMAIN storage |->
        IF storage[name].status = "ok" THEN [storage[name] EXCEPT !.value = uuid]
        ELSE storage[name]]

MaxGenerated == 2

\* getOrCreateUUID.  The catch block is entered only by the rejection of
\* _getFromIndexedDB; it generates a new UUID.
GetOrCreateUUID ==
    /\ client.generated < MaxGenerated
    /\ LET fromLocalStorage == GetFromLocalStorage(client.storage)
           fromIndexedDB == GetFromIndexedDB(client.storage)
           fromCookie == GetFromCookie(client.storage)
           found ==
               IF Truthy(fromLocalStorage) THEN <<fromLocalStorage>>
               ELSE IF fromIndexedDB[1] = "rejected" THEN <<>>
               ELSE IF Truthy(fromIndexedDB[2]) THEN <<fromIndexedDB[2]>>
               ELSE IF Truthy(fromCookie) THEN <<fromCookie>>
               ELSE <<>>
           uuid == IF found # <<>> THEN found[1] ELSE GenerateUUID(client.generated + 1)
       IN  client' = [storage |-> SyncToAllStorage(client.storage, uuid),
                      generated |-> IF found # <<>> THEN client.generated
                                    ELSE client.generated + 1,
                      returned |-> <<[uuid |-> uuid, storage |-> client.storage]>>]
    /\ UNCHANGED <<user_identities, user_device_profiles, device_change_history,
                   identity_matching_logs, system_settings, now, calls, matcher>>

\* The browser or the user makes a storage available, unavailable or
\* failing (private browsing, blocked site data, a worker without document).
SetStatus(name, status) ==
    /\ client.storage[name].status # status
    /\ client' = [client EXCEPT !.storage[name].status = status, !.returned = <<>>]
    /\ UNCHANGED <<user_identities, user_device_profiles, device_change_history,
                   identity_matching_logs, system_settings, now, calls, matcher>>

\* The user clears a storage.
ClearStorage(name) ==
    /\ client.storage[name].value # Null
    /\ client' = [client EXCEPT !.storage[name].value = Null, !.returned = <<>>]
    /\ UNCHANGED <<user_identities, user_device_profiles, device_change_history,
                   identity_matching_logs, system_settings, now, calls, matcher>>

NextClient ==
    \/ GetOrCreateUUID
    \/ \E name \in Range(Storages), status \in {"ok", "undefined", "error"} :
          SetStatus(name, status)
    \/ \E name \in Range(Storages) : ClearStorage(name)

SpecClient == Init /\ [][NextClient]_vars

(***************************************************************************)
(* Direct calls on the FingerprintMatcher, with arguments from small sets. *)
(***************************************************************************)
\* A device profile as the matcher reads it.  hardware is the pair of core
\* count and device memory; screen is width, height, colour depth and
\* pixel ratio.
MatcherProfile(canvas, audio, hardware, screen, fonts, platform, userAgent, ip) ==
    [canvas_fingerprint |-> canvas, audio_fingerprint |-> audio,
     hardware_concurrency |-> hardware[1], device_memory |-> hardware[2],
     screen_width |-> screen[1], screen_height |-> screen[2],
     screen_color_depth |-> screen[3], screen_pixel_ratio |-> screen[4],
     fonts_list |-> fonts, platform |-> platform, user_agent |-> userAgent,
     ip_address |-> ip,
     language |-> Str("en-US"), timezone |-> Str("UTC"),
     webgl_fingerprint |-> <<"sha", 0, "r1">>, country |-> Null, city |-> Null,
     plugins_list |-> <<>>]

FullHardware == {<<Num(8), Num(16)>>, <<Num(4), Num(16)>>, <<Num(4), Num(8)>>}

FullScreens ==
    {<<Num(1920), Num(1080), Num(24), Num(100)>>,
     <<Num(1920), Num(1080), Num(24), Dec(105)>>,
     <<Num(1280), Num(720), Num(32), Num(200)>>}

FullFonts == {<<"Arial", "Verdana">>, <<"Arial", "Helvetica">>}

\* The profiles calculateSimilarity is called with: every group of fields is
\* present with one of a few values, or missing.
SimilarityProfiles ==
    {MatcherProfile(canvas, audio, hardware, screen, fonts,
                    Str("Win32"), Str("Mozilla/5.0 Chrome/120 Safari/537"), Null) :
        canvas \in {Undef, Str("c1"), Str("c2")},
        audio \in {Null, Str("a1")},
        hardware \in FullHardware \cup {<<Num(8), Null>>, <<Undef, Null>>},
        screen \in FullScreens \cup {<<Null, Undef, Null, Undef>>},
        fonts \in FullFonts \cup {Undef}}

\* The profiles classifyChange is called with.
ClassifyProfiles ==
    {MatcherProfile(Str("c1"), Str("a1"), hardware, screen, <<"Arial", "Verdana">>,
                    platform, userAgent, ip) :
        hardware \in {<<Num(8), Num(16)>>, <<Num(4), Num(16)>>, <<Num(8), Num(8)>>},
        screen \in {<<Num(1920), Num(1080), Num(24), Num(100)>>,
                    <<Num(1280), Num(1080), Num(24), Num(100)>>},
        platform \in {Str("Win32"), Str("Linux")},
        userAgent \in {Str("Mozilla/5.0 Chrome/120 Safari/537"),
                       Str("Mozilla/5.0 Chrome/121 Safari/537"),
                       Str("Mozilla/5.0 Firefox/115"), Str("curl/7"), Str("curl/8"), Null},
        ip \in {Null, Str("10.0.0.1")}}

\* The target of findBestMatch and its candidates: against the target they
\* score 1.0, 0.9, 0.9, 0.7 and 0.45; the last two share only the audio
\* hash (0.70) and only the canvas hash (0.75) of the five groups of fields
\* that can match.
TargetDevice ==
    MatcherProfile(Str("c1"), Str("a1"), <<Num(8), Num(16)>>,
                   <<Num(1920), Num(1080), Num(24), Num(100)>>, <<"Arial", "Verdana">>,
                   Str("Win32"), Str("Mozilla/5.0 Chrome/120 Safari/537"), Null)

Candidates ==
    {TargetDevice,
     [TargetDevice EXCEPT !.hardware_concurrency = Num(4)],
     [TargetDevice EXCEPT !.fonts_list = Undef],
     [TargetDevice EXCEPT !.hardware_concurrency = Num(4), !.device_memory = Num(8),
                          !.fonts_list = Undef],
     [TargetDevice EXCEPT !.canvas_fingerprint = Str("c2"), !.audio_fingerprint = Null],
     [TargetDevice EXCEPT !.canvas_fingerprint = Str("c2")],
     [TargetDevice EXCEPT !.audio_fingerprint = Str("a2")]}

MaxCandidates == 2

CandidateLists ==
    {Null, Undef} \cup {Arr(list) : list \in UNION {[1..n -> Candidates] : n \in 0..MaxCandidates}}

FontNames == {"Arial", "Verdana", "Times", "Helvetica"}

MaxFonts == 3

FontLists == {Null, Undef} \cup UNION {[1..n -> FontNames] : n \in 0..MaxFonts}

\* The profiles detectChanges is called with.  DetectBase is a row as the
\* database returns it; OtherValues are the other values of a field.
DetectBase ==
    [user_agent |-> Str("Mozilla/5.0 Chrome/120 Safari/537"), platform |-> Str("Win32"),
     language |-> Str("en-US"), timezone |-> Str("UTC"),
     screen_width |-> Num(1920), screen_height |-> Num(1080),
     screen_color_depth |-> Num(24), screen_pixel_ratio |-> Dec(100),
     hardware_concurrency |-> Num(8), device_memory |-> Num(16),
     canvas_fingerprint |-> <<"sha", 0, "c1">>, audio_fingerprint |-> <<"sha", 0, "a1">>,
     webgl_fingerprint |-> <<"sha", 0, "r1">>,
     ip_address |-> Null, country |-> Null, city |-> Null,
     fonts_list |-> <<"Arial", "Verdana">>,
     plugins_list |-> <<Str("PDF Viewer"), Null>>]

DetectFields == Range(ScalarFields) \cup {"fonts_list", "plugins_list"}

OtherValues(field) ==
    CASE field = "user_agent" -> {Str("Mozilla/5.0 Chrome/121 Safari/537"), Null}
      [] field = "platform" -> {Str("Linux")}
      [] field = "language" -> {Str("fr-FR"), Undef}
      [] field = "timezone" -> {Undef}
      [] field = "screen_width" -> {Num(1280)}
      [] field = "screen_height" -> {Num(720)}
      [] field = "screen_color_depth" -> {Num(32)}
      [] field = "screen_pixel_ratio" -> {Num(100), Null}
      [] field = "hardware_concurrency" -> {Num(4)}
      [] field = "device_memory" -> {Num(8), Null}
      [] field = "canvas_fingerprint" -> {<<"sha", 0, "c2">>}
      [] field = "audio_fingerprint" -> {Null}
      [] field = "webgl_fingerprint" -> {<<"sha", 0, "r2">>}
      [] field = "ip_address" -> {Str("10.0.0.1")}
      [] field = "country" -> {Str("NL")}
      [] field = "city" -> {Str("Delft")}
      [] field = "fonts_list" -> {<<"Verdana", "Arial">>, <<"Arial">>, <<>>, Null, Undef}
      [] field = "plugins_list" ->
            {<<Str("PDF Viewer"), Undef>>, <<Null, Str("PDF Viewer")>>, <<Str("PDF Viewer")>>}

MaxChanged == 2

\* DetectBase with other values in at most n of its fields.
RECURSIVE ChangedDevices(_)
ChangedDevices(n) ==
    IF n = 0 THEN {DetectBase}
    ELSE LET fewer == ChangedDevices(n - 1)
         IN  fewer \cup UNION {{[pair[1] EXCEPT ![pair[2]] = value] :
                                    value \in OtherValues(pair[2])} :
                                pair \in fewer \X DetectFields}

\* The user-agent strings _extractBrowserInfo is called with.
UserAgents ==
    {Str("Mozilla/5.0 Chrome/120 Safari/537"), Str("Mozilla/5.0 Chrome/121 Safari/537"),
     Str("Mozilla/5.0 Firefox/115"), Str("Mozilla/5.0 Version/17 Safari/605"),
     Str("Mozilla/5.0 Chrome/120 Safari/537 Edg/120"),
     Str("Mozilla/5.0 Chrome/120 Safari/537 OPR/106"),
     Str("curl/7"), Str("curl/8"), Str("")}

CallCalculateSimilarity(device1, device2) ==
    /\ matcher.op = "idle"
    /\ matcher' = [op |-> "calculateSimilarity", args |-> <<device1, device2>>,
                   result |-> CalculateSimilarity(device1, device2)]
    /\ UNCHANGED <<client, user_identities, user_device_profiles, device_change_history,
                   identity_matching_logs, system_settings, now, calls>>

CallFindBestMatch(targetDevice, candidateDevices) ==
    /\ matcher.op = "idle"
    /\ matcher' = [op |-> "findBestMatch", args |-> <<targetDevice, candidateDevices>>,
                   result |-> FindBestMatch(targetDevice, candidateDevices)]
    /\ UNCHANGED <<client, user_identities, user_device_profiles, device_change_history,
                   identity_matching_logs, system_settings, now, calls>>

CallClassifyChange(oldDevice, newDevice) ==
    /\ matcher.op = "idle"
    /\ matcher' = [op |-> "classifyChange", args |-> <<oldDevice, newDevice>>,
                   result |-> ClassifyChange(oldDevice, newDevice)]
    /\ UNCHANGED <<client, user_identities, user_device_profiles, device_change_history,
                   identity_matching_logs, system_settings, now, calls>>

CallCompareFonts(fonts1, fonts2) ==
    /\ matcher.op = "idle"
    /\ matcher' = [op |-> "_compareFonts", args |-> <<fonts1, fonts2>>,
                   result |-> CompareFonts(fonts1, fonts2)]
    /\ UNCHANGED <<client, user_identities, user_device_profiles, device_change_history,
                   identity_matching_logs, system_settings, now, calls>>

CallDetectChanges(oldDevice, newDevice) ==
    /\ matcher.op = "idle"
    /\ matcher' = [op |-> "detectChanges", args |-> <<oldDevice, newDevice>>,
                   result |-> DetectChanges(oldDevice, newDevice)]
    /\ UNCHANGED <<client, user_identities, user_device_profiles, device_change_history,
                   identity_matching_logs, system_settings, now, calls>>

CallExtractBrowserInfo(userAgent) ==
    /\ matcher.op = "idle"
    /\ matcher' = [op |-> "_extractBrowserInfo", args |-> <<userAgent>>,
                   result |-> ExtractBrowserInfo(userAgent)]
    /\ UNCHANGED <<client, user_identities, user_device_profiles, device_change_history,
                   identity_matching_logs, system_settings, now, calls>>

\* One call on the matcher, with any of the arguments.
NextMatcher ==
    \/ /\ matcher.op = "idle"
       /\ \E device1, device2 \in SimilarityProfiles :
             CallCalculateSimilarity(device1, device2)
    \/ /\ matcher.op = "idle"
       /\ \E candidateDevices \in CandidateLists :
             CallFindBestMatch(TargetDevice, candidateDevices)
    \/ /\ matcher.op = "idle"
       /\ \E oldDevice, newDevice \in ClassifyProfiles :
             CallClassifyChange(oldDevice, newDevice)
    \/ /\ matcher.op = "idle"
       /\ \E fonts1, fonts2 \in FontLists : CallCompareFonts(fonts1, fonts2)
    \/ /\ matcher.op = "idle"
       /\ \E oldDevice \in ChangedDevices(1), newDevice \in ChangedDevices(MaxChanged) :
             CallDetectChanges(oldDevice, newDevice)
    \/ /\ matcher.op = "idle"
       /\ \E userAgent \in UserAgents : CallExtractBrowserInfo(userAgent)

SpecMatcher == Init /\ [][NextMatcher]_vars

(***************************************************************************)
(* Properties                                                              *)
(***************************************************************************)
Returned(c) == calls[c].pc = "returned"

\* Call c has begun and no later call has.
Latest(c) == calls[c].pc # "idle" /\ (c = MaxCalls \/ calls[c + 1].pc = "idle")

SameRequest(c, d) ==
    /\ calls[c].clientUUID = calls[d].clientUUID
    /\ calls[c].deviceInfo = calls[d].deviceInfo

ProfilesOfSession(sessionId) ==
    {p \in Range(user_device_profiles) : p.device_session_id = sessionId}

CurrentProfiles(identityId) ==
    {p \in Range(user_device_profiles) : p.user_identity_id = identityId /\ p.is_current}

\* C1: a recognized or recovered result carries the external identifier
\* that the status=new call which created the resolved Identity returned.
C1_SameExternalId ==
    \A c \in CallIds :
        (Returned(c) /\ calls[c].result[1].status \in {"recognized", "recovered"}) =>
            \E d \in CallIds :
                /\ Returned(d)
                /\ calls[d].result[1].status = "new"
                /\ \E p \in ProfilesOfSession(calls[c].result[1].session_id) :
                      p.user_identity_id = IdentityKey(d)
                /\ calls[c].result[1].user_id = calls[d].result[1].user_id

\* C2: when identify(T, F) returns and is called again with the same T and
\* F, the second call returns recognized, is_device_changed false and the
\* session id of the first call.
C2_RepeatIsRecognized ==
    \A c \in CallIds :
        (c > 1 /\ Finished(c) /\ SameRequest(c, c - 1) /\ Returned(c - 1)) =>
            /\ Returned(c)
            /\ calls[c].result[1].status = "recognized"
            /\ ~calls[c].result[1].is_device_changed
            /\ calls[c].result[1].session_id = calls[c - 1].result[1].session_id

\* A profile row without the two columns the profile-touch updates.
Untouched(p) == [p EXCEPT !.last_seen_at = 0, !.visit_count = 0]

\* C3: a call that repeats the request of the call before it creates no
\* DeviceProfile and no ChangeEvent; it changes at most last-seen and the
\* visit counter of profiles that were there.  No call creates more than one
\* profile or more than one change event.
C3_RepeatCreatesNothing ==
    \A c \in CallIds :
        Latest(c) =>
            LET before == calls[c].before[1]
            IN  /\ Len(user_device_profiles) <= Len(before.profiles) + 1
                /\ Len(device_change_history) <= Len(before.changes) + 1
                /\ (c > 1 /\ SameRequest(c, c - 1)) =>
                      /\ Len(user_device_profiles) = Len(before.profiles)
                      /\ \A i \in 1..Len(before.profiles) :
                            Untouched(user_device_profiles[i]) = Untouched(before.profiles[i])
                      /\ device_change_history = before.changes

\* A repeated request has returned on the path that touches the profile.
C3_Witness ==
    \E c \in CallIds :
        /\ c > 1 /\ SameRequest(c, c - 1) /\ Returned(c)
        /\ \E p \in ProfilesOfSession(calls[c].result[1].session_id) : p.visit_count = 2

\* C4: a token match whose fingerprint differs from the current profile only
\* in the core count (8 before, 4 now) returns recognized, changed, major
\* and a new session id; the old profile is no longer current and the new
\* profile is the current profile of the Identity.
C4_CoreCountChange ==
    \A c \in CallIds :
        (/\ Finished(c) /\ Latest(c)
         /\ calls[c].outcome = "recognized"
         /\ calls[c].changeDetection[1].changedFields = <<"hardware_concurrency">>
         /\ calls[c].uuidMatch[1].hardware_concurrency = Num(8)
         /\ DeviceInfoOf(calls[c].deviceInfo).hardwareConcurrency = Num(4)) =>
            /\ Returned(c)
            /\ calls[c].result[1].status = "recognized"
            /\ calls[c].result[1].is_device_changed
            /\ calls[c].result[1].change_type = Str("major")
            /\ calls[c].result[1].session_id # MatchedSessionId(c)
            /\ \A p \in ProfilesOfSession(MatchedSessionId(c)) : ~p.is_current
            /\ \E p \in ProfilesOfSession(calls[c].result[1].session_id) :
                  CurrentProfiles(MatchedUserId(c)) = {p}

\* C5: a call whose token has no current profile and whose best candidate
\* shares the canvas hash and meets the threshold returns recovered with the
\* candidate's totalScore, changed, device_reset; a new current profile with
\* a new session id and the call's token exists under the candidate's
\* Identity, and no Identity was created.
C5_Recovery ==
    \A c \in CallIds :
        (/\ Finished(c) /\ Latest(c)
         /\ calls[c].outcome = "recovered"
         /\ calls[c].fingerprintMatch[1].device.canvas_fingerprint
               = HashFingerprint(DeviceInfoOf(calls[c].deviceInfo).canvasHash)) =>
            /\ Returned(c)
            /\ calls[c].result[1].status = "recovered"
            /\ calls[c].result[1].confidence = calls[c].fingerprintMatch[1].confidence
            /\ calls[c].result[1].is_device_changed
            /\ calls[c].result[1].change_type = Str("device_reset")
            /\ \E p \in ProfilesOfSession(calls[c].result[1].session_id) :
                  /\ p \notin Range(calls[c].before[1].profiles)
                  /\ p.is_current
                  /\ p.client_uuid = Str(calls[c].clientUUID)
                  /\ p.user_identity_id = MatchedUserId(c)
            /\ Len(user_identities) = Len(calls[c].before[1].identities)

Quiet == \A c \in CallIds : ~Active(c)

\* The call went into the supersede sequence: a token match with a changed
\* fingerprint, or a recovery.
Supersedes(c) ==
    \/ calls[c].outcome = "recovered"
    \/ calls[c].outcome = "recognized" /\ calls[c].changeDetection[1].hasChanged

\* C7: when calls run one at a time and none is in progress, every Identity
\* has at most one current profile.
C7_OneCurrentAfterCalls ==
    Quiet => \A u \in Range(user_identities) : Cardinality(CurrentProfiles(u.id)) <= 1

\* A token match with a changed fingerprint and a recovery have both ended.
C7_Witness ==
    /\ Quiet
    /\ \E c, d \in CallIds :
          /\ Finished(c) /\ calls[c].outcome = "recovered"
          /\ Finished(d) /\ calls[d].outcome = "recognized" /\ Supersedes(d)

\* C8: with interleaved calls, in every reachable state every Identity has
\* at most one current profile.
C8_OneCurrentAlways ==
    \A u \in Range(user_identities) : Cardinality(CurrentProfiles(u.id)) <= 1

\* Two calls that supersede the profile of the same Identity are both past
\* the UPDATE that clears the current flag and before their INSERT.
C8_Witness ==
    \E c, d \in CallIds :
        /\ c # d
        /\ calls[c].pc = "createDeviceSession:insert"
        /\ calls[d].pc = "createDeviceSession:insert"
        /\ MatchedUserId(c) = MatchedUserId(d)

\* C9: two calls with the same client token never both return new.
C9_OneNewIdentityPerToken ==
    \A c, d \in CallIds :
        (/\ c # d
         /\ Returned(c) /\ calls[c].result[1].status = "new"
         /\ Returned(d) /\ calls[d].result[1].status = "new") =>
            calls[c].clientUUID # calls[d].clientUUID

NewUserSteps ==
    {"createNewUser:identity", "createNewUser:profile", "createNewUser:change",
     "createNewUser:commit"}

\* C11: when a statement of the new-identity transaction is rejected, or the
\* process dies inside it, the Identity, DeviceProfile and ChangeEvent
\* tables are exactly as they were when the call began.
C11_NewIdentityAtomic ==
    \A c \in CallIds :
        (Latest(c) /\ calls[c].failedAt \in NewUserSteps) =>
            /\ user_identities = calls[c].before[1].identities
            /\ user_device_profiles = calls[c].before[1].profiles
            /\ device_change_history = calls[c].before[1].changes

\* The third INSERT of the transaction was rejected after the first two had
\* run, and the error has left identify.
C11_Witness ==
    \E c \in CallIds :
        /\ calls[c].pc = "raised"
        /\ calls[c].failedAt = "createNewUser:change"

\* No current profile of the tables as the call found them has its token.
NoTokenProfile(c) ==
    \A p \in Range(calls[c].before[1].profiles) :
        ~(p.client_uuid = Str(calls[c].clientUUID) /\ p.is_current)

\* No profile of the tables as the call found them that shares the canvas or
\* the audio hash of the request scores a match against it.
NoCandidateMatches(c) ==
    LET target == DeviceInfoToProfile(DeviceInfoOf(calls[c].deviceInfo), Null)
    IN  \A p \in Range(calls[c].before[1].profiles) :
            (\/ (p.canvas_fingerprint # Null /\ p.canvas_fingerprint = target.canvas_fingerprint)
             \/ (p.audio_fingerprint # Null /\ p.audio_fingerprint = target.audio_fingerprint)) =>
                ~CalculateSimilarity(target,
                                     FingerprintRow(p, calls[c].before[1].identities)).isMatch

\* C12: a call adds an Identity only when no current profile had its token
\* and no candidate matched its fingerprint; a call that returns recognized
\* or recovered leaves the number of Identities as it was.
C12_IdentityOnlyOnNoMatch ==
    \A c \in CallIds :
        Latest(c) =>
            /\ Len(user_identities) # Len(calls[c].before[1].identities) =>
                  /\ calls[c].outcome = "new"
                  /\ NoTokenProfile(c)
                  /\ NoCandidateMatches(c)
            /\ (Returned(c) /\ calls[c].result[1].status \in {"recognized", "recovered"}) =>
                  Len(user_identities) = Len(calls[c].before[1].identities)

\* One call has returned recognized and a later call, which found profiles
\* in the table, has created an Identity.
C12_Witness ==
    \E c, d \in CallIds :
        /\ d < c /\ Latest(c)
        /\ Returned(d) /\ calls[d].result[1].status = "recognized"
        /\ Returned(c) /\ calls[c].result[1].status = "new"
        /\ Len(user_identities) = Len(calls[c].before[1].identities) + 1

\* The log row the latest call appended, when it appended exactly one.
AppendedLog(c) == identity_matching_logs[Len(identity_matching_logs)]

AppendedOneLog(c) ==
    Len(identity_matching_logs) = Len(calls[c].before[1].logs) + 1

\* C13: when a statement of identify is rejected and the log write of the
\* catch block succeeds, the error leaves identify after a log row with
\* status failed, no Identity and confidence 0 was written.
C13_FailedLogWritten ==
    \A c \in CallIds :
        (Latest(c) /\ calls[c].pc = "raised" /\ calls[c].failedAt # "catch") =>
            /\ AppendedOneLog(c)
            /\ AppendedLog(c).client_uuid = Str(calls[c].clientUUID)
            /\ AppendedLog(c).match_status = "failed"
            /\ AppendedLog(c).user_identity_id = NoId
            /\ AppendedLog(c).match_confidence = 0

\* The UPDATE of the Identity's last-seen time was rejected and the error
\* has left identify.
C13_Witness ==
    \E c \in CallIds :
        /\ calls[c].pc = "raised"
        /\ calls[c].failedAt = "updateUserLastSeen"
        /\ calls[c].error = "persistence_failure"

\* C14: the error that leaves identify is the error of the rejected
\* statement, never the error of the failed-status log write.
C14_OriginalErrorSurfaces ==
    \A c \in CallIds :
        calls[c].pc = "raised" =>
            calls[c].error \in {"persistence_failure", "not_null_violation"}

\* C15: a call that returns, or that raises after one rejected statement,
\* has appended exactly one log row: with the returned status when it
\* returns, with status failed when it raises.
C15_OneLogRowPerCall ==
    \A c \in CallIds :
        (Latest(c) /\ (Returned(c) \/ (calls[c].pc = "raised" /\ calls[c].failedAt # "catch"))) =>
            /\ AppendedOneLog(c)
            /\ IF Returned(c)
               THEN /\ calls[c].result[1].status \in {"recognized", "recovered", "new"}
                    /\ AppendedLog(c).match_status = calls[c].result[1].status
               ELSE AppendedLog(c).match_status = "failed"

\* The log write of a call that had created an Identity was rejected, and
\* the error has left identify.
C15_Witness ==
    \E c \in CallIds :
        /\ calls[c].pc = "raised"
        /\ calls[c].outcome = "new"
        /\ calls[c].failedAt = "logMatching"

\* C16: every log row with status recognized, recovered or new references
\* an Identity; only rows with status failed have a null reference.
C16_LogReferencesIdentity ==
    \A row \in Range(identity_matching_logs) :
        row.match_status # "failed" => row.user_identity_id # NoId

\* C17: when a call has returned recognized or recovered, the Identity that
\* owns the profile of the returned session was last seen at the time of
\* the call.
C17_LastSeenUpdated ==
    \A c \in CallIds :
        (Latest(c) /\ Returned(c) /\ calls[c].result[1].status \in {"recognized", "recovered"}) =>
            \A u \in Range(user_identities) :
                (\E p \in ProfilesOfSession(calls[c].result[1].session_id) :
                    p.user_identity_id = u.id) => u.last_seen_at = now

\* C18: a call that returns has a status of recognized, recovered or new;
\* its confidence is 1.0 when recognized or new; the confidence a call on
\* the recovered path carries is the totalScore of the matched candidate
\* and lies between the threshold and 1.0.
C18_StatusAndConfidence ==
    \A c \in CallIds :
        /\ Returned(c) =>
              /\ calls[c].result[1].status \in {"recognized", "recovered", "new"}
              /\ calls[c].result[1].status \in {"recognized", "new"} =>
                    calls[c].result[1].confidence = ScoreUnit
              /\ calls[c].result[1].status = "recovered" =>
                    calls[c].result[1].confidence = calls[c].fingerprintMatch[1].confidence
        /\ calls[c].outcome = "recovered" =>
              LET score == calls[c].fingerprintMatch[1].confidence
                  target == DeviceInfoToProfile(DeviceInfoOf(calls[c].deviceInfo), Null)
              IN  /\ score = CalculateSimilarity(target,
                                                 calls[c].fingerprintMatch[1].device).totalScore
                  /\ score * 100 >= Threshold * ScoreUnit
                  /\ score <= ScoreUnit

\* One call has returned recognized and another is on the recovered path
\* with a candidate that scored below 1.0.
C18_Witness ==
    \E c, d \in CallIds :
        /\ Returned(d) /\ calls[d].result[1].status = "recognized"
        /\ calls[c].outcome = "recovered"
        /\ calls[c].fingerprintMatch[1].confidence < ScoreUnit

C20_RecoveryChangeEvent ==
    \A c \in CallIds :
        calls[c].outcome = "recovered" =>
            LET event == ChangeRow(SelectIdentityId(user_identities, MatchedUserId(c)),
                                   SessionId(c), MatchedSessionId(c),
                                   calls[c].changeDetection[1], "device_change", now)
            IN  /\ event.change_type = Str("device_reset")
                /\ event.change_category = Str("device_reset")
                /\ event.changed_fields = <<"client_uuid">>
                /\ event.match_confidence
                      = ConfidenceColumn(calls[c].fingerprintMatch[1].confidence)

\* The two arguments of the call made on the matcher.
Arg1 == matcher.args[1]

Arg2 == matcher.args[2]

FullyPopulated(x) ==
    /\ Truthy(x.canvas_fingerprint) /\ Truthy(x.audio_fingerprint)
    /\ Truthy(x.hardware_concurrency) /\ Truthy(x.device_memory)
    /\ Truthy(x.screen_width) /\ Truthy(x.screen_height)
    /\ Truthy(x.screen_color_depth) /\ Truthy(x.screen_pixel_ratio)
    /\ ~NoList(x.fonts_list) /\ x.fonts_list # <<>>

\* C22: calculateSimilarity(x, x) of a fully populated profile x has
\* totalScore 1.0 and isMatch true.
C22_SelfSimilarity ==
    (matcher.op = "calculateSimilarity" /\ Arg1 = Arg2 /\ FullyPopulated(Arg1)) =>
        /\ matcher.result.totalScore = ScoreUnit
        /\ matcher.result.isMatch

\* A fully populated profile whose pixel ratio is the string of a DECIMAL
\* column was compared with itself.
C22_Witness ==
    /\ matcher.op = "calculateSimilarity"
    /\ Arg1 = Arg2 /\ FullyPopulated(Arg1)
    /\ Arg1.screen_pixel_ratio = Dec(105)

\* C23: calculateSimilarity(a, b) and calculateSimilarity(b, a) have the same
\* totalScore, the same isMatch and the same sub-scores.
C23_Symmetric ==
    matcher.op = "calculateSimilarity" =>
        CalculateSimilarity(Arg2, Arg1) = matcher.result

\* The first profile lacks the canvas hash and has the hardware fields, the
\* second has the canvas hash and lacks the hardware and the font list.
C23_Witness ==
    /\ matcher.op = "calculateSimilarity"
    /\ ~Truthy(Arg1.canvas_fingerprint) /\ Truthy(Arg2.canvas_fingerprint)
    /\ Truthy(Arg1.hardware_concurrency) /\ ~Truthy(Arg2.hardware_concurrency)
    /\ ~NoList(Arg1.fonts_list) /\ NoList(Arg2.fonts_list)
    /\ matcher.result.totalScore > 0

\* Every compared field of the profile is missing.
AllMissing(x) ==
    /\ ~Truthy(x.canvas_fingerprint) /\ ~Truthy(x.audio_fingerprint)
    /\ ~Truthy(x.hardware_concurrency) /\ ~Truthy(x.device_memory)
    /\ ~Truthy(x.screen_width) /\ ~Truthy(x.screen_height)
    /\ ~Truthy(x.screen_color_depth) /\ ~Truthy(x.screen_pixel_ratio)
    /\ NoList(x.fonts_list)

\* The sum of the five weighted sub-scores of the result.
BreakdownSum ==
    matcher.result.breakdown.canvas + matcher.result.breakdown.audio
    + matcher.result.breakdown.hardware + matcher.result.breakdown.screen
    + matcher.result.breakdown.fonts

\* C24: totalScore is the sum of the five weighted sub-scores, at most 1.0,
\* and lies in [0, 1]; with every compared field missing on both sides it is
\* 0 and isMatch is false.
C24_ScoreRange ==
    matcher.op = "calculateSimilarity" =>
        /\ matcher.result.breakdown.canvas
              = CompareExact(Arg1.canvas_fingerprint, Arg2.canvas_fingerprint) * WeightCanvas
        /\ matcher.result.breakdown.audio
              = CompareExact(Arg1.audio_fingerprint, Arg2.audio_fingerprint) * WeightAudio
        /\ matcher.result.breakdown.hardware = CompareHardware(Arg1, Arg2) * WeightHardware
        /\ matcher.result.breakdown.screen = CompareScreen(Arg1, Arg2) * WeightScreen
        /\ matcher.result.breakdown.fonts
              = CompareFonts(Arg1.fonts_list, Arg2.fonts_list) * WeightFonts
        /\ matcher.result.totalScore = Min(BreakdownSum, ScoreUnit)
        /\ matcher.result.totalScore >= 0
        /\ matcher.result.totalScore <= ScoreUnit
        /\ (AllMissing(Arg1) /\ AllMissing(Arg2)) =>
              /\ matcher.result.totalScore = 0
              /\ ~matcher.result.isMatch

\* Two profiles without any compared field, their canvas both undefined,
\* were compared.
C24_Witness ==
    /\ matcher.op = "calculateSimilarity"
    /\ AllMissing(Arg1) /\ AllMissing(Arg2)
    /\ Arg1.canvas_fingerprint = Arg2.canvas_fingerprint

CandidateScore(i) == CalculateSimilarity(Arg1, Arg2[3][i]).totalScore

\* C26: findBestMatch returns none for a missing or empty candidate list and
\* for a list none of whose candidates reaches the threshold.
C26_NoneBelowThreshold ==
    matcher.op = "findBestMatch" =>
        ((\/ ~Truthy(Arg2)
          \/ \A i \in 1..Len(Arg2[3]) : CandidateScore(i) * 100 < Threshold * ScoreUnit)
            => matcher.result = <<>>)

\* The best of two candidates scored 0.70 and none was returned.
C26_Witness ==
    /\ matcher.op = "findBestMatch"
    /\ Truthy(Arg2) /\ Len(Arg2[3]) = 2
    /\ \E i \in 1..2 : CandidateScore(i) * 100 = 70 * ScoreUnit
    /\ \A i \in 1..2 : CandidateScore(i) * 100 <= 70 * ScoreUnit
    /\ matcher.result = <<>>

\* C27: the candidate findBestMatch returns has the highest totalScore of
\* all candidates and comes before every other candidate of that score.
C27_HighestAndFirst ==
    (matcher.op = "findBestMatch" /\ matcher.result # <<>>) =>
        \E i \in 1..Len(Arg2[3]) :
            /\ matcher.result[1].device = Arg2[3][i]
            /\ matcher.result[1].similarity = CalculateSimilarity(Arg1, Arg2[3][i])
            /\ \A j \in 1..Len(Arg2[3]) : CandidateScore(j) <= CandidateScore(i)
            /\ \A j \in 1..(i - 1) : CandidateScore(j) < CandidateScore(i)

\* Two different candidates tied at the highest score and the first one was
\* returned.
C27_Witness ==
    /\ matcher.op = "findBestMatch"
    /\ Truthy(Arg2) /\ Len(Arg2[3]) = 2
    /\ Arg2[3][1] # Arg2[3][2]
    /\ CandidateScore(1) = CandidateScore(2)
    /\ matcher.result # <<>>
    /\ matcher.result[1].device = Arg2[3][1]

\* C28: the font score is 0 when either list is null, undefined or empty,
\* and otherwise the size of the intersection of the two sets of names over
\* the size of their union.
C28_Jaccard ==
    matcher.op = "_compareFonts" =>
        IF NoList(Arg1) \/ NoList(Arg2)
        THEN matcher.result = 0
        ELSE IF Arg1 = <<>> \/ Arg2 = <<>>
        THEN matcher.result = 0
        ELSE matcher.result * Cardinality(Range(Arg1) \cup Range(Arg2))
                = Cardinality(Range(Arg1) \cap Range(Arg2)) * SubUnit

\* Three fonts against three fonts with two in common: the score is 0.5.
C28_Witness ==
    /\ matcher.op = "_compareFonts"
    /\ Arg1 = <<"Arial", "Verdana", "Times">>
    /\ Arg2 = <<"Arial", "Verdana", "Helvetica">>
    /\ matcher.result * 2 = SubUnit

\* C29: a call that begins after an Identity was created, with registration
\* disabled and not enabled again by the admin, creates no Identity.
C29_RegistrationDisabled ==
    \A c \in CallIds :
        (/\ Latest(c)
         /\ calls[c].before[1].identities # <<>>
         /\ ~calls[c].before[1].settings.registration_enabled
         /\ ~system_settings.registration_enabled) =>
            Len(user_identities) = Len(calls[c].before[1].identities)

SupersedeSteps ==
    {"createDeviceSession:update", "createDeviceSession:insert",
     "createDeviceSession:statistics", "recordDeviceChange"}

\* C30: a token match whose change is classified as minor never enters the
\* sequence that creates a new device session; it returns the session of
\* the matched profile and adds no profile.
C30_MinorChangeUpdates ==
    \A c \in CallIds :
        (/\ Latest(c)
         /\ calls[c].outcome = "recognized"
         /\ calls[c].changeDetection[1].hasChanged
         /\ calls[c].changeDetection[1].changeType = Str("minor")) =>
            /\ calls[c].pc \notin SupersedeSteps
            /\ calls[c].failedAt \notin SupersedeSteps
            /\ Len(user_device_profiles) = Len(calls[c].before[1].profiles)
            /\ Returned(c) => calls[c].result[1].session_id = MatchedSessionId(c)

\* A plugin list with every undefined element replaced by null.
NullForUndefined(plugins) ==
    [i \in 1..Len(plugins) |-> IF plugins[i] = Undef THEN Null ELSE plugins[i]]

\* detectChanges returns exactly the names of the fields of the two
\* records whose values differ, and so nothing exactly when all 18 agree.
C31_ExactlyDiffering ==
    matcher.op = "detectChanges" =>
        /\ Range(matcher.result) = {field \in DetectFields : Arg1[field] # Arg2[field]}
        /\ (matcher.result = <<>>) <=> (Arg1 = Arg2)

\* C31: detectChanges returns, each once, the names of the scalar fields
\* whose values differ, fonts_list when the two font lists differ (in
\* their names or in the order of the names) and plugins_list when the two
\* plugin lists differ otherwise than by an undefined element in the place
\* of a null one.
C31_DetectChangesJson ==
    matcher.op = "detectChanges" =>
        /\ Range(matcher.result) =
              {field \in Range(ScalarFields) \cup {"fonts_list"} :
                  Arg1[field] # Arg2[field]}
              \cup {field \in {"plugins_list"} :
                       NullForUndefined(Arg1[field]) # NullForUndefined(Arg2[field])}
        /\ Len(matcher.result) = Cardinality(Range(matcher.result))

\* The same font names in another order and a plugin list with an
\* undefined name where the stored one has null: only fonts_list is
\* returned.
C31_Witness ==
    /\ matcher.op = "detectChanges"
    /\ Arg1.fonts_list = <<"Arial", "Verdana">>
    /\ Arg2.fonts_list = <<"Verdana", "Arial">>
    /\ Arg1.plugins_list = <<Str("PDF Viewer"), Null>>
    /\ Arg2.plugins_list = <<Str("PDF Viewer"), Undef>>
    /\ matcher.result = <<"fonts_list">>

\* The row of the Identity with the given external identifier.
IdentityOf(identities, userId) ==
    CHOOSE identity \in Range(identities) : identity.user_identity_id = userId

TokenOf(product) == FirstToken(ProductTokens(Arg1[3]), product, 1)

\* C33: a user agent with an Edg/ token is named Edge and one with an OPR/
\* token Opera, with the version of that token, also when Chrome/ and
\* Safari/ tokens precede it; one with Chrome/ and Safari/ and neither of
\* the two is named Chrome.
C33_SpecificFirst ==
    matcher.op = "_extractBrowserInfo" =>
        /\ TokenOf("Edg") # <<>> =>
              matcher.result = [name |-> "Edge", version |-> TokenOf("Edg")[1][2]]
        /\ TokenOf("OPR") # <<>> =>
              matcher.result = [name |-> "Opera", version |-> TokenOf("OPR")[1][2]]
        /\ (TokenOf("Chrome") # <<>> /\ TokenOf("Safari") # <<>>
              /\ TokenOf("Edg") = <<>> /\ TokenOf("OPR") = <<>>) =>
              matcher.result = [name |-> "Chrome", version |-> TokenOf("Chrome")[1][2]]

\* Neither user agent of the pair has a token of a known browser.
NoSignature(userAgent) ==
    /\ Truthy(userAgent)
    /\ \A i \in 1..Len(BrowserPatterns) :
          FirstToken(ProductTokens(userAgent[3]), BrowserPatterns[i][2], 1) = <<>>

\* C34: for two user agents without a token of a known browser,
\* classifyChange does not return browser_update: with platform, hardware
\* and screen size equal it returns ip_change when the addresses differ and
\* environmental_change otherwise.
C34_UnknownNeverUpdate ==
    (/\ matcher.op = "classifyChange"
     /\ NoSignature(Arg1.user_agent) /\ NoSignature(Arg2.user_agent)) =>
        /\ matcher.result.category # "browser_update"
        /\ (/\ Arg1.platform = Arg2.platform
            /\ Arg1.hardware_concurrency = Arg2.hardware_concurrency
            /\ Arg1.device_memory = Arg2.device_memory
            /\ Arg1.screen_width = Arg2.screen_width
            /\ Arg1.screen_height = Arg2.screen_height) =>
              matcher.result.category =
                  IF Arg1.ip_address # Arg2.ip_address THEN "ip_change"
                  ELSE "environmental_change"

\* classifyChange was called on two profiles that differ only in their
\* user agents, curl/7 and curl/8, and returned environmental_change.
C34_Witness ==
    /\ matcher.op = "classifyChange"
    /\ Arg1.user_agent = Str("curl/7") /\ Arg2.user_agent = Str("curl/8")
    /\ [Arg1 EXCEPT !.user_agent = Null] = [Arg2 EXCEPT !.user_agent = Null]
    /\ matcher.result.type = "minor"
    /\ matcher.result.category = "environmental_change"

\* C35: every call of identify that has begun eventually returns a result
\* or raises an error: calls run one at a time, and whenever one is in
\* progress there comes a moment when every call that has begun has
\* returned or raised.
C35_Terminates ==
    (\E c \in CallIds : Active(c))
        ~> (\A c \in CallIds : calls[c].pc \in {"idle", "returned", "raised"})

\* A call that went through the candidate list has returned and the call
\* after it has raised the error of a rejected statement.
C35_Witness ==
    \E c, d \in CallIds :
        /\ calls[c].outcome = "new" /\ Returned(c)
        /\ calls[d].pc = "raised" /\ calls[d].error = "persistence_failure"

\* The UUID a storage holds for a reader: its value when the storage is
\* ok, nothing when it is unavailable or fails.
Held(storage, name) == IF storage[name].status = "ok" THEN storage[name].value ELSE Null

\* The UUID of the first storage, in the order localStorage, IndexedDB,
\* cookie, that holds one; the empty sequence when none does.
RECURSIVE FirstHeld(_, _)
FirstHeld(storage, i) ==
    IF i > Len(Storages) THEN <<>>
    ELSE IF Held(storage, Storages[i]) # Null THEN <<Held(storage, Storages[i])>>
    ELSE FirstHeld(storage, i + 1)

\* C36: getOrCreateUUID returns the UUID of the first storage that holds
\* one, a storage that is unavailable or fails counting as holding none,
\* and a UUID no storage held only when none holds one; when it has
\* returned, every storage that is ok holds the UUID it returned.
C36_HighestPriorityStorage ==
    client.returned # <<>> =>
        LET uuid == client.returned[1].uuid
            storage == client.returned[1].storage
        IN  /\ FirstHeld(storage, 1) # <<>> => uuid = FirstHeld(storage, 1)[1]
            /\ FirstHeld(storage, 1) = <<>> =>
                  \A name \in Range(Storages) : storage[name].value # uuid
            /\ \A name \in Range(Storages) :
                  client.storage[name].status = "ok" => client.storage[name].value = uuid

\* Both sides have the value and it is the same.
Shared(value1, value2) == Truthy(value1) /\ Truthy(value2) /\ value1 = value2

\* C37: two profiles match only if they share the canvas hash; without it
\* they score at most 0.70; sharing the canvas hash and not the audio hash
\* they match only if the hardware, screen and font scores are all 1; and
\* findBestMatch returns only a candidate that shares the canvas hash of
\* the target.
C37_CanvasRequired ==
    /\ matcher.op = "calculateSimilarity" =>
          /\ matcher.result.isMatch =>
                Shared(Arg1.canvas_fingerprint, Arg2.canvas_fingerprint)
          /\ ~Shared(Arg1.canvas_fingerprint, Arg2.canvas_fingerprint) =>
                matcher.result.totalScore * 100 <= 70 * ScoreUnit
          /\ (/\ matcher.result.isMatch
              /\ ~Shared(Arg1.audio_fingerprint, Arg2.audio_fingerprint)) =>
                /\ CompareHardware(Arg1, Arg2) = SubUnit
                /\ CompareScreen(Arg1, Arg2) = SubUnit
                /\ CompareFonts(Arg1.fonts_list, Arg2.fonts_list) = SubUnit
    /\ (matcher.op = "findBestMatch" /\ matcher.result # <<>>) =>
          Shared(Arg1.canvas_fingerprint, matcher.result[1].device.canvas_fingerprint)

\* Of a candidate that shares everything but the canvas hash and one that
\* shares everything but the audio hash, in this order, findBestMatch
\* returned the second, which scores exactly the threshold.
C37_Witness ==
    /\ matcher.op = "findBestMatch"
    /\ Truthy(Arg2) /\ Len(Arg2[3]) = 2
    /\ Arg2[3][1] = [Arg1 EXCEPT !.canvas_fingerprint = Str("c2")]
    /\ Arg2[3][2] = [Arg1 EXCEPT !.audio_fingerprint = Str("a2")]
    /\ CandidateScore(1) * 100 = 70 * ScoreUnit
    /\ CandidateScore(2) * 100 = Threshold * ScoreUnit
    /\ matcher.result # <<>>
    /\ matcher.result[1].device = Arg2[3][2]

\* The current profiles that carry the token.
CurrentOfToken(token) ==
    {i \in 1..Len(user_device_profiles) :
        /\ user_device_profiles[i].client_uuid = Str(token)
        /\ user_device_profiles[i].is_current}

\* C38: when calls run one at a time and none is in progress, no token is
\* carried by more than one current profile.
C38_OneCurrentPerToken ==
    Quiet => \A token \in ClientUUIDs : Cardinality(CurrentOfToken(token)) <= 1

\* Two tokens have a current profile each, under different Identities, and
\* a call with one of the tokens and a changed fingerprint has ended.
C38_Witness ==
    /\ Quiet
    /\ \A token \in ClientUUIDs : Cardinality(CurrentOfToken(token)) = 1
    /\ Len(user_identities) = 2
    /\ \E c \in CallIds :
          Finished(c) /\ calls[c].outcome = "recognized" /\ Supersedes(c)

\* Every call that has begun has returned a result.
AllReturned == \A c \in CallIds : calls[c].pc \in {"idle", "returned"}

\* The change events of the device session.
EventsOfSession(sessionId) ==
    {i \in 1..Len(device_change_history) :
        device_change_history[i].device_session_id = sessionId}

\* C39: when every call has returned without failure, every profile is the
\* device session of exactly one change event, which is of the profile's
\* Identity, every change event is of a profile, no two profiles share a
\* device session, and a token match without change has added neither a
\* profile nor a change event.
C39_ProfilesAndEvents ==
    AllReturned =>
        /\ \A p \in Range(user_device_profiles) :
              /\ Cardinality(EventsOfSession(p.device_session_id)) = 1
              /\ \A i \in EventsOfSession(p.device_session_id) :
                    device_change_history[i].user_identity_id = p.user_identity_id
        /\ \A i \in 1..Len(device_change_history) :
              ProfilesOfSession(device_change_history[i].device_session_id) # {}
        /\ Len(device_change_history) = Len(user_device_profiles)
        /\ \A i, j \in 1..Len(user_device_profiles) :
              user_device_profiles[i].device_session_id
                  = user_device_profiles[j].device_session_id => i = j
        /\ \A c \in CallIds :
              (/\ Latest(c) /\ Returned(c)
               /\ calls[c].outcome = "recognized" /\ ~Supersedes(c)) =>
                  /\ Len(user_device_profiles) = Len(calls[c].before[1].profiles)
                  /\ device_change_history = calls[c].before[1].changes

\* Two Identities were created and then a token match without change
\* returned.
C39_Witness ==
    /\ AllReturned
    /\ Len(user_device_profiles) = 2 /\ Len(device_change_history) = 2
    /\ \E c \in CallIds :
          /\ Latest(c) /\ Returned(c)
          /\ calls[c].outcome = "recognized" /\ ~Supersedes(c)

\* C40: on the pair classifyChange was called with, detectChanges contains
\* platform for os_change, hardware_concurrency or device_memory for
\* hardware_change, screen_width or screen_height for screen_change and
\* ip_address for ip_change; on a pair for which detectChanges returned
\* nothing, classifyChange returns minor and environmental_change.
C40_ClassifyAgreesWithDetect ==
    /\ matcher.op = "classifyChange" =>
          LET changes == Range(DetectChanges(Arg1, Arg2))
              category == matcher.result.category
          IN  /\ category = "os_change" => "platform" \in changes
              /\ category = "hardware_change" =>
                    changes \cap {"hardware_concurrency", "device_memory"} # {}
              /\ category = "screen_change" =>
                    changes \cap {"screen_width", "screen_height"} # {}
              /\ category = "ip_change" => "ip_address" \in changes
    /\ (matcher.op = "detectChanges" /\ matcher.result = <<>>) =>
          /\ ClassifyChange(Arg1, Arg2).type = "minor"
          /\ ClassifyChange(Arg1, Arg2).category = "environmental_change"

\* classifyChange returned ip_change for a pair on which detectChanges
\* returns the address and the user agent.
C40_Witness ==
    /\ matcher.op = "classifyChange"
    /\ matcher.result.category = "ip_change"
    /\ DetectChanges(Arg1, Arg2) = <<"user_agent", "ip_address">>

====
